---------------------------- MODULE Spec2Model ----------------------------
(***************************************************************************)
(* A model of the Standard MIDI File decoder of mitallast/midibot.         *)
(*                                                                         *)
(* The repository holds two revisions of the decoder:                      *)
(*   src/unnamed/part_000  the revision that returns MidiEvent values,     *)
(*   src/midi/midi.go      the revision that prints what it decodes and    *)
(*                         panics in some meta-event branches,             *)
(* and the driver of src/midibot.go.  The variable rev says which revision *)
(* is running; where the two agree the definitions below are shared.       *)
(*                                                                         *)
(* Bytes are the integers 0..255.  A uint64 is kept as three limbs of 28   *)
(* bits, <<l0, l1, l2>> = l0 + l1*2^28 + l2*2^56, the last limb holding    *)
(* only the 8 bits a uint64 has left; a limb is four 7-bit groups, so the  *)
(* shifts by 0, 7, 14, ... of ReadUVarInt never straddle a limb.           *)
(***************************************************************************)
EXTENDS Integers, Sequences, FiniteSets, TLC

VARIABLES
    midi,   \* the Midi struct: buffer (bytes and read offset), mthd, mtrk, event
    ret,    \* what the last call returned: the call, its error, event and value
    pc,     \* where the caller is
    rev,    \* the revision of the decoder that runs
    gen     \* how the input bytes were put together

vars == <<midi, ret, pc, rev, gen>>

-----------------------------------------------------------------------------
(* Errors, src/unnamed/part_000:9-24, and those of the Go library.         *)

nil == "nil"
ioEOF == "io.EOF"
ioErrUnexpectedEOF == "io.ErrUnexpectedEOF"
errEOF == "errEOF"
errNotImplemented == "errNotImplemented"
errInvalidHeader == "errInvalidHeader"
errInvalidCommandCode == "errInvalidCommandCode"
errInvalidMetaEventType == "errInvalidMetaEventType"
errInvalidTempoLength == "errInvalidTempoLength"
errInvalidTimeSignatureLength == "errInvalidTimeSignatureLength"
errInvalidKeySignatureLen == "errInvalidKeySignatureLen"
errInvalidTrackEndLength == "errInvalidTrackEndLength"
errInvalidPitchWheelByte == "errInvalidPitchWheelByte"
errInvalidPatch == "errInvalidPatch"
errInvalidAfterTouchPressure == "errInvalidAfterTouchPressure"
errInvalidSmpteOffset == "errInvalidSmpteOffset"
errVarInt32Overflow == "errVarInt32Overflow"

-----------------------------------------------------------------------------
(* uint64 arithmetic on limbs.                                             *)

Limb == 2^28
TopLimb == 2^8

U64(n) == <<n % Limb, n \div Limb, 0>>
U64Zero == <<0, 0, 0>>

RECURSIVE Pow128(_)
Pow128(j) == IF j = 0 THEN 1 ELSE 128 * Pow128(j - 1)

\* a | b on two 7-bit groups
RECURSIVE Or7(_, _, _)
Or7(a, b, bits) ==
    IF bits = 0 THEN 0
    ELSE (IF a % 2 = 1 \/ b % 2 = 1 THEN 1 ELSE 0)
         + 2 * Or7(a \div 2, b \div 2, bits - 1)

\* x | uint64(b) << s, for a byte b < 128 and a shift s that is a multiple
\* of 7: Go shifts a uint64 out at bit 64, and to 0 when s >= 64.
U64OrShl(x, b, s) ==
    LET i == s \div 7
        k == i \div 4
        j == i % 4
        w == Pow128(j)
    IN  IF k > 2 THEN x
        ELSE LET old   == x[k + 1]
                 group == (old \div w) % 128
                 new   == old - group * w + Or7(group, b, 7) * w
             IN  [x EXCEPT ![k + 1] = IF k = 2 THEN new % TopLimb ELSE new]

\* a + b on uint64, wrapping at 2^64
U64Add(a, b) ==
    LET s0 == a[1] + b[1]
        s1 == a[2] + b[2] + s0 \div Limb
        s2 == a[3] + b[3] + s1 \div Limb
    IN  <<s0 % Limb, s1 % Limb, s2 % TopLimb>>

\* x >> 7 and x & 0x7f on uint64
U64Shr7(x) ==
    <<x[1] \div 128 + (x[2] % 128) * (Limb \div 128),
      x[2] \div 128 + (x[3] % 128) * (Limb \div 128),
      x[3] \div 128>>
U64Low7(x) == x[1] % 128
U64Small(x) == x[2] = 0 /\ x[3] = 0 /\ x[1] < 128

-----------------------------------------------------------------------------
(* The buffer: bytes.Buffer of the Go library, read only.                  *)

\* The bytes of a buffer are kept as a sequence, head, followed by times
\* copies of a sequence, unit, so that a long file stays short to write down.
Bytes(head, unit, times) == [head |-> head, unit |-> unit, times |-> times]

Plain(b) == Bytes(b, <<>>, 0)

BytesLen(b) == Len(b.head) + Len(b.unit) * b.times

ByteAt(b, i) ==
    IF i <= Len(b.head) THEN b.head[i]
    ELSE b.unit[((i - Len(b.head) - 1) % Len(b.unit)) + 1]

Available(m) == BytesLen(m.buffer.buf) - m.buffer.off

Advance(m, n) == [m EXCEPT !.buffer.off = @ + n]

NoEvent == [kind |-> "nil"]

Ret(m, err, ev, val) == [m |-> m, err |-> err, ev |-> ev, val |-> val, panic |-> FALSE]

Panic(m, err) == [m |-> m, err |-> err, ev |-> NoEvent, val |-> 0, panic |-> TRUE]

\* a ReadByte on a buffer that the decoder shares with the first of two
\* decoders: it reads where the one that is further has left the cursor
ReadByteShared(m) ==
    LET o  == IF midi[1].buffer.off > m.buffer.off THEN midi[1].buffer.off
              ELSE m.buffer.off
        ms == [m EXCEPT !.buffer.off = o]
    IN  IF Available(ms) = 0
        THEN Ret(ms, ioEOF, NoEvent, 0)
        ELSE Ret(Advance(ms, 1), nil, NoEvent, ByteAt(ms.buffer.buf, ms.buffer.off + 1))

\* bytes.Buffer.ReadByte: io.EOF on an empty buffer, else the next byte
ReadByte(m) ==
    IF Available(m) = 0
    THEN Ret(m, ioEOF, NoEvent, 0)
    ELSE Ret(Advance(m, 1), nil, NoEvent, ByteAt(m.buffer.buf, m.buffer.off + 1))

\* an unread that steps back over two bytes
UnreadByteTwice(m) == [m EXCEPT !.buffer.off = @ - 2]

\* bytes.Buffer.UnreadByte right after a successful ReadByte
UnreadByte(m) == [m EXCEPT !.buffer.off = @ - 1]

-----------------------------------------------------------------------------
(* ReadUVarInt, src/unnamed/part_000:550-567.                              *)

\* a decoder that assembles the groups high-order first
RECURSIVE ReadUVarIntLoopBigEndian(_, _, _, _)
ReadUVarIntLoopBigEndian(m, x, s, i) ==
    LET r == ReadByte(m)
        b == r.val
        shifted == <<(x[1] % (Limb \div 128)) * 128,
                      (x[2] % (Limb \div 128)) * 128 + x[1] \div (Limb \div 128), 0>>
    IN  IF r.err # nil
        THEN Ret(r.m, errVarInt32Overflow, NoEvent, U64Zero)
        ELSE IF b < 128
             THEN IF i > 5 \/ (i = 5 /\ b > 1)
                  THEN Ret(r.m, errVarInt32Overflow, NoEvent, U64Zero)
                  ELSE Ret(r.m, nil, NoEvent, U64OrShl(shifted, b, 0))
             ELSE ReadUVarIntLoopBigEndian(r.m, U64OrShl(shifted, b % 128, 0), s + 7, i + 1)

ReadUVarIntBigEndian(m) == ReadUVarIntLoopBigEndian(m, U64Zero, 0, 0)

\* a decoder with the bound of a 32-bit varint: five bytes, the fifth below 16
RECURSIVE ReadUVarIntLoop32(_, _, _, _)
ReadUVarIntLoop32(m, x, s, i) ==
    LET r == ReadByte(m)
        b == r.val
    IN  IF r.err # nil
        THEN Ret(r.m, errVarInt32Overflow, NoEvent, U64Zero)
        ELSE IF b < 128
             THEN IF i > 4 \/ (i = 4 /\ b > 15)
                  THEN Ret(r.m, errVarInt32Overflow, NoEvent, U64Zero)
                  ELSE Ret(r.m, nil, NoEvent, U64OrShl(x, b, s))
             ELSE ReadUVarIntLoop32(r.m, U64OrShl(x, b % 128, s), s + 7, i + 1)

RECURSIVE ReadUVarIntLoop(_, _, _, _)
ReadUVarIntLoop(m, x, s, i) ==
    LET r == ReadByte(m)
        b == r.val
    IN  IF r.err # nil
        THEN Ret(r.m, errVarInt32Overflow, NoEvent, U64Zero)
        ELSE IF b < 128
             THEN IF i > 5 \/ (i = 5 /\ b > 1)
                  THEN Ret(r.m, errVarInt32Overflow, NoEvent, U64Zero)
                  ELSE Ret(r.m, nil, NoEvent, U64OrShl(x, b, s))
             ELSE ReadUVarIntLoop(r.m, U64OrShl(x, b % 128, s), s + 7, i + 1)

ReadUVarInt(m) == ReadUVarIntLoop(m, U64Zero, 0, 0)

-----------------------------------------------------------------------------
(* Fixed-width reads.                                                      *)

Int16BE(b) == (IF b[1] >= 128 THEN b[1] - 256 ELSE b[1]) * 256 + b[2]

Int32BE(b) ==
    (IF b[1] >= 128 THEN b[1] - 256 ELSE b[1]) * 16777216
    + b[2] * 65536 + b[3] * 256 + b[4]

\* int16 increment, wrapping
Int16Inc(n) == IF n = 32767 THEN -32768 ELSE n + 1

\* int(len) for a uint64 len. Buffers here are far shorter than 2^28 bytes
\* and ReadBytes only compares the count with what the buffer holds, so
\* every count of 2^28 or more is kept as 2^28.
IntOfU64(x) == IF x[2] = 0 /\ x[3] = 0 THEN x[1] ELSE Limb

Slice(m, n) == [i \in 1..n |-> ByteAt(m.buffer.buf, m.buffer.off + i)]

\* binary.Read of n bytes (io.ReadFull): what is there is consumed, and the
\* destination is written only when all n bytes were there
BinaryRead(m, n) ==
    LET avail == Available(m)
    IN  IF avail >= n THEN Ret(Advance(m, n), nil, NoEvent, Slice(m, n))
        ELSE IF avail = 0 THEN Ret(m, ioEOF, NoEvent, <<>>)
        ELSE Ret(Advance(m, avail), ioErrUnexpectedEOF, NoEvent, <<>>)

\* ReadBytes, src/unnamed/part_000:538-548, over bytes.Buffer.Read
ReadBytes(m, bytes) ==
    LET avail == Available(m)
        l     == IF bytes < avail THEN bytes ELSE avail
    IN  IF avail = 0
        THEN IF bytes = 0 THEN Ret(m, nil, NoEvent, <<>>)
                          ELSE Ret(m, ioEOF, NoEvent, <<>>)
        ELSE IF l # bytes
             THEN Ret(Advance(m, l), errEOF, NoEvent, <<>>)
             ELSE Ret(Advance(m, l), nil, NoEvent, Slice(m, l))

-----------------------------------------------------------------------------
(* The decoder's state, src/unnamed/part_000:65-90.                        *)

Revisions == {"part_000", "midi.go"}

\* a decoder that starts with the running status of a NoteOn on channel 1
NewMidiNoteOn(b) ==
    [buffer |-> [buf |-> b, off |-> 0],
     mthd   |-> [length |-> 0, format |-> 0, tracks |-> 0, division |-> 0],
     mtrk   |-> [track |-> 0, length |-> 0, end_pos |-> 0, time_pos |-> U64Zero],
     event  |-> [delta |-> U64Zero, commandCode |-> 144, channel |-> 1]]

NewMidi(b) ==
    [buffer |-> [buf |-> b, off |-> 0],
     mthd   |-> [length |-> 0, format |-> 0, tracks |-> 0, division |-> 0],
     mtrk   |-> [track |-> 0, length |-> 0, end_pos |-> 0, time_pos |-> U64Zero],
     event  |-> [delta |-> U64Zero, commandCode |-> 0, channel |-> 0]]

MThd == <<77, 84, 104, 100>>   \* "MThd"
MTrk == <<77, 84, 114, 107>>   \* "MTrk"

ReadMThdMarker(m) ==
    LET r == ReadBytes(m, 4)
    IN  IF r.err # nil THEN Ret(r.m, r.err, NoEvent, 0)
        ELSE IF r.val # MThd THEN Ret(r.m, errInvalidHeader, NoEvent, 0)
        ELSE Ret(r.m, nil, NoEvent, 0)

readMTrkMarker(m) ==
    LET r == ReadBytes(m, 4)
    IN  IF r.err # nil THEN Ret(r.m, r.err, NoEvent, 0)
        ELSE IF r.val # MTrk THEN Ret(r.m, errInvalidHeader, NoEvent, 0)
        ELSE Ret(r.m, nil, NoEvent, 0)

\* a header reader that skips what the declared length says lies behind the
\* three fields
ReadMThdSkipping(m) ==
    LET r0 == ReadMThdMarker(m)
    IN  IF r0.err # nil THEN r0 ELSE
    LET r1 == BinaryRead(r0.m, 4)
    IN  IF r1.err # nil THEN Ret(r1.m, r1.err, NoEvent, 0) ELSE
    LET m1 == [r1.m EXCEPT !.mthd.length = Int32BE(r1.val)]
        r2 == BinaryRead(m1, 2)
    IN  IF r2.err # nil THEN Ret(r2.m, r2.err, NoEvent, 0) ELSE
    LET m2 == [r2.m EXCEPT !.mthd.format = Int16BE(r2.val)]
        r3 == BinaryRead(m2, 2)
    IN  IF r3.err # nil THEN Ret(r3.m, r3.err, NoEvent, 0) ELSE
    LET m3 == [r3.m EXCEPT !.mthd.tracks = Int16BE(r3.val)]
        r4 == BinaryRead(m3, 2)
    IN  IF r4.err # nil THEN Ret(r4.m, r4.err, NoEvent, 0) ELSE
    LET m4   == [r4.m EXCEPT !.mthd.division = Int16BE(r4.val)]
        rest == IF m4.mthd.length > 6 THEN m4.mthd.length - 6 ELSE 0
        skip == IF rest < Available(m4) THEN rest ELSE Available(m4)
    IN  Ret(Advance(m4, skip), nil, NoEvent, 0)

ReadMThd(m) ==
    LET r0 == ReadMThdMarker(m)
    IN  IF r0.err # nil THEN r0 ELSE
    LET r1 == BinaryRead(r0.m, 4)
    IN  IF r1.err # nil THEN Ret(r1.m, r1.err, NoEvent, 0) ELSE
    LET m1 == [r1.m EXCEPT !.mthd.length = Int32BE(r1.val)]
        r2 == BinaryRead(m1, 2)
    IN  IF r2.err # nil THEN Ret(r2.m, r2.err, NoEvent, 0) ELSE
    LET m2 == [r2.m EXCEPT !.mthd.format = Int16BE(r2.val)]
        r3 == BinaryRead(m2, 2)
    IN  IF r3.err # nil THEN Ret(r3.m, r3.err, NoEvent, 0) ELSE
    LET m3 == [r3.m EXCEPT !.mthd.tracks = Int16BE(r3.val)]
        r4 == BinaryRead(m3, 2)
    IN  IF r4.err # nil THEN Ret(r4.m, r4.err, NoEvent, 0) ELSE
        Ret([r4.m EXCEPT !.mthd.division = Int16BE(r4.val)], nil, NoEvent, 0)

\* a track test that counts one track more than the header does
HasNextMTrkInclusive(m) == m.mtrk.track <= m.mthd.tracks

HasNextMTrk(m) == m.mtrk.track < m.mthd.tracks

ReadMTrkFormat0(m) == Ret(m, errNotImplemented, NoEvent, 0)

ReadMTrkFormat2(m) == Ret(m, errNotImplemented, NoEvent, 0)

\* a frame reader that takes the end position before the length field is read
ReadMTrkFormat1EarlyEnd(m) ==
    LET r == BinaryRead(m, 4)
    IN  IF r.err # nil THEN Ret(r.m, r.err, NoEvent, 0)
        ELSE Ret([r.m EXCEPT !.mtrk.length = Int32BE(r.val),
                             !.mtrk.end_pos = Available(m) - Int32BE(r.val)],
                 nil, NoEvent, 0)

ReadMTrkFormat1(m) ==
    LET r == BinaryRead(m, 4)
    IN  IF r.err # nil THEN Ret(r.m, r.err, NoEvent, 0)
        ELSE Ret([r.m EXCEPT !.mtrk.length = Int32BE(r.val),
                             !.mtrk.end_pos = Available(r.m) - Int32BE(r.val)],
                 nil, NoEvent, 0)

\* a frame reader that reads the length field before it looks at the format
ReadMTrkLengthFirst(m) ==
    LET r == readMTrkMarker(m)
    IN  IF r.err # nil THEN r ELSE
    LET l == ReadMTrkFormat1(r.m)
    IN  IF l.err # nil THEN l
        ELSE CASE r.m.mthd.format = 0 -> ReadMTrkFormat0(l.m)
               [] r.m.mthd.format = 1 -> l
               [] r.m.mthd.format = 2 -> ReadMTrkFormat2(l.m)
               [] OTHER -> Ret(l.m, errInvalidHeader, NoEvent, 0)

ReadMTrk(m) ==
    LET r == readMTrkMarker(m)
    IN  IF r.err # nil THEN r
        ELSE CASE r.m.mthd.format = 0 -> ReadMTrkFormat0(r.m)
               [] r.m.mthd.format = 1 -> ReadMTrkFormat1(r.m)
               [] r.m.mthd.format = 2 -> ReadMTrkFormat2(r.m)
               [] OTHER -> Ret(r.m, errInvalidHeader, NoEvent, 0)

ReadNextMTrk(m) == ReadMTrk([m EXCEPT !.mtrk.track = Int16Inc(@)])

\* an event test that is still true at the frame's end
HasNextEventInclusive(m) == Available(m) >= m.mtrk.end_pos

\* an event test that is also false once the bytes just consumed are those
\* of an EndOfTrack
HasNextEventUntilEndTrack(m) ==
    /\ Available(m) > m.mtrk.end_pos
    /\ ~(/\ m.buffer.off >= 3
         /\ ByteAt(m.buffer.buf, m.buffer.off - 2) = 255
         /\ ByteAt(m.buffer.buf, m.buffer.off - 1) = 47
         /\ ByteAt(m.buffer.buf, m.buffer.off) = 0)

HasNextEvent(m) == Available(m) > m.mtrk.end_pos

-----------------------------------------------------------------------------
(* Command codes and meta-event types, src/unnamed/part_000:26-63.         *)

CommandCodeNoteOff == 128
CommandCodeNoteOn == 144
CommandCodeKeyAfterTouch == 160
CommandCodeControlChange == 176
CommandCodePatchChange == 192
CommandCodeChannelAfterTouch == 208
CommandCodePitchWheelChange == 224
CommandCodeSysex == 240
CommandCodeEox == 247
CommandCodeTimingClock == 248
CommandCodeStartSequence == 250
CommandCodeContinueSequence == 251
CommandCodeStopSequence == 252
CommandCodeAutoSensing == 254
CommandCodeMetaEvent == 255

MetaEventTrackSequenceNumber == 0
MetaEventTextEvent == 1
MetaEventCopyright == 2
MetaEventSequenceTrackName == 3
MetaEventTrackInstrumentName == 4
MetaEventLyric == 5
MetaEventMarker == 6
MetaEventCuePoint == 7
MetaEventProgramName == 8
MetaEventDeviceName == 9
MetaEventMidiChannel == 32
MetaEventMidiPort == 33
MetaEventEndTrack == 47
MetaEventSetTempo == 81
MetaEventSmpteOffset == 84
MetaEventTimeSignature == 88
MetaEventKeySignature == 89
MetaEventSequencerSpecific == 127

-----------------------------------------------------------------------------
(* Byte arithmetic: Go keeps a byte expression in 8 bits.                  *)

RECURSIVE Pow2(_)
Pow2(n) == IF n = 0 THEN 1 ELSE 2 * Pow2(n - 1)

\* b << n on a byte: the bits shifted past bit 7 are lost
ByteShl(b, n) == IF n >= 8 THEN 0 ELSE (b * Pow2(n)) % 256

ByteAdd(a, b) == (a + b) % 256

-----------------------------------------------------------------------------
(* Readers of n plain bytes in a row, as the event decoders do with        *)
(* consecutive ReadByte calls: the first failing read ends the decoder.    *)

RECURSIVE ReadByteSeq(_, _, _)
ReadByteSeq(m, n, acc) ==
    IF n = 0 THEN Ret(m, nil, NoEvent, acc)
    ELSE LET r == ReadByte(m)
         IN  IF r.err # nil THEN Ret(r.m, r.err, NoEvent, acc)
             ELSE ReadByteSeq(r.m, n - 1, Append(acc, r.val))

-----------------------------------------------------------------------------
(* Channel and system events, src/unnamed/part_000:232-351.                *)

RECURSIVE ReadSysexLoop(_, _)
ReadSysexLoop(m, data) ==
    LET r == ReadByte(m)
    IN  IF r.err # nil THEN Ret(r.m, r.err, NoEvent, 0)
        ELSE IF r.val = 247
             THEN Ret(r.m, nil, [kind |-> "SysexEvent", event |-> r.m.event, data |-> data], 0)
             ELSE ReadSysexLoop(r.m, Append(data, r.val))

\* a Sysex decoder that takes the first byte for the count of the bytes
\* that follow
ReadSysexEventCounted(m) ==
    LET r == ReadByte(m)
    IN  IF r.err # nil THEN Ret(r.m, r.err, NoEvent, 0)
        ELSE LET d == ReadBytes(r.m, r.val)
             IN  IF d.err # nil THEN Ret(d.m, d.err, NoEvent, 0)
                 ELSE Ret(d.m, nil, [kind |-> "SysexEvent", event |-> d.m.event,
                                     data |-> d.val], 0)

ReadSysexEvent(m) == ReadSysexLoop(m, <<>>)

ReadAfterTouchEvent(m) ==
    LET r == ReadByte(m)
    IN  IF r.err # nil THEN Ret(r.m, r.err, NoEvent, 0)
        ELSE IF r.val >= 128 THEN Ret(r.m, errInvalidAfterTouchPressure, NoEvent, 0)
        ELSE Ret(r.m, nil, [kind |-> "AfterTouchEvent", event |-> r.m.event,
                            pressure |-> r.val], 0)

ReadPatchChangeEvent(m) ==
    LET r == ReadByte(m)
    IN  IF r.err # nil THEN Ret(r.m, r.err, NoEvent, 0)
        ELSE IF r.val >= 128 THEN Ret(r.m, errInvalidPatch, NoEvent, 0)
        ELSE Ret(r.m, nil, [kind |-> "PatchChangeEvent", event |-> r.m.event,
                            patch |-> r.val], 0)

\* part_000: int(b1) + int(b2<<7), the shift done on the byte;
\* midi.go:  b1 + (b2 << 7), all of it done on bytes
PitchOf(b1, b2) ==
    IF rev = "midi.go" THEN ByteAdd(b1, ByteShl(b2, 7))
    ELSE b1 + ByteShl(b2, 7)

ReadPitchWheelEvent(m) ==
    LET r == ReadByteSeq(m, 2, <<>>)
    IN  IF r.err # nil THEN Ret(r.m, r.err, NoEvent, 0)
        ELSE IF r.val[1] >= 128 THEN Ret(r.m, errInvalidPitchWheelByte, NoEvent, 0)
        ELSE IF r.val[2] >= 128 THEN Ret(r.m, errInvalidPitchWheelByte, NoEvent, 0)
        ELSE Ret(r.m, nil, [kind |-> "PitchWheelEvent", event |-> r.m.event,
                            pitch |-> PitchOf(r.val[1], r.val[2])], 0)

ReadControlChangeEvent(m) ==
    LET r == ReadByteSeq(m, 2, <<>>)
    IN  IF r.err # nil THEN Ret(r.m, r.err, NoEvent, 0)
        ELSE Ret(r.m, nil, [kind |-> "ControlChangeEvent", event |-> r.m.event,
                            key |-> r.val[1], pressure |-> r.val[2]], 0)

ReadNoteOnEvent(m) ==
    LET r == ReadByteSeq(m, 2, <<>>)
    IN  IF r.err # nil THEN Ret(r.m, r.err, NoEvent, 0)
        ELSE Ret(r.m, nil, [kind |-> "NoteOnEvent", event |-> r.m.event,
                            key |-> r.val[1], velocity |-> r.val[2]], 0)

ReadNoteOffEvent(m) ==
    LET r == ReadByteSeq(m, 2, <<>>)
    IN  IF r.err # nil THEN Ret(r.m, r.err, NoEvent, 0)
        ELSE Ret(r.m, nil, [kind |-> "NoteOffEvent", event |-> r.m.event,
                            key |-> r.val[1], velocity |-> r.val[2]], 0)

-----------------------------------------------------------------------------
(* Meta-events, src/unnamed/part_000:353-536; the panics are those of      *)
(* src/midi/midi.go:382-385, 417-420, 467-470 and 507-510.                 *)

ReadSequencerSpecificEvent(m, len) ==
    LET r == ReadBytes(m, IntOfU64(len))
    IN  IF r.err # nil THEN Ret(r.m, r.err, NoEvent, 0)
        ELSE Ret(r.m, nil, [kind |-> "SequencerSpecificEvent", event |-> r.m.event,
                            data |-> r.val], 0)

ReadSmpteOffsetEvent(m, len) ==
    IF len # U64(5)
    THEN IF rev = "midi.go" THEN Panic(m, errInvalidSmpteOffset)
         ELSE Ret(m, errInvalidSmpteOffset, NoEvent, 0)
    ELSE LET r == ReadByteSeq(m, 5, <<>>)
         IN  IF r.err # nil THEN Ret(r.m, r.err, NoEvent, 0)
             ELSE Ret(r.m, nil, [kind |-> "SmpteOffsetEvent", event |-> r.m.event,
                                 hours |-> r.val[1], minutes |-> r.val[2],
                                 seconds |-> r.val[3], frames |-> r.val[4],
                                 subFrames |-> r.val[5]], 0)

ReadKeySignatureEvent(m, len) ==
    IF len # U64(2) THEN Ret(m, errInvalidKeySignatureLen, NoEvent, 0)
    ELSE LET r == ReadByteSeq(m, 2, <<>>)
         IN  IF r.err # nil THEN Ret(r.m, r.err, NoEvent, 0)
             ELSE Ret(r.m, nil, [kind |-> "KeySignatureEvent", event |-> r.m.event,
                                 sharpsFlats |-> r.val[1], majorMinor |-> r.val[2]], 0)

ReadTimeSignatureEvent(m, len) ==
    IF len # U64(4)
    THEN IF rev = "midi.go" THEN Panic(m, errInvalidTimeSignatureLength)
         ELSE Ret(m, errInvalidTimeSignatureLength, NoEvent, 0)
    ELSE LET r == ReadByteSeq(m, 4, <<>>)
         IN  IF r.err # nil THEN Ret(r.m, r.err, NoEvent, 0)
             ELSE Ret(r.m, nil, [kind |-> "TimeSignatureEvent", event |-> r.m.event,
                                 numerator |-> r.val[1], denominator |-> r.val[2],
                                 ticksInMetronomeClick |-> r.val[3],
                                 no32ndNotesInQuarterNote |-> r.val[4]], 0)

\* a text reader that takes a terminating byte along with the text
ReadTextEventTerminated(m, len) ==
    LET r == ReadBytes(m, IntOfU64(len) + 1)
    IN  IF r.err # nil THEN Ret(r.m, r.err, NoEvent, 0)
        ELSE Ret(r.m, nil, [kind |-> "TextEvent", event |-> r.m.event,
                            text |-> SubSeq(r.val, 1, IntOfU64(len))], 0)

ReadTextEvent(m, len) ==
    IF len # U64Zero
    THEN LET r == ReadBytes(m, IntOfU64(len))
         IN  IF r.err # nil THEN Ret(r.m, r.err, NoEvent, 0)
             ELSE Ret(r.m, nil, [kind |-> "TextEvent", event |-> r.m.event,
                                 text |-> r.val], 0)
    ELSE Ret(m, nil, [kind |-> "TextEvent", event |-> m.event, text |-> <<>>], 0)

\* the 24-bit value with every byte widened before it is shifted
TempoOfWidened(b1, b2, b3) == b1 * 65536 + b2 * 256 + b3

\* part_000: int(b1<<16) + int(b2<<8) + int(b3), the shifts done on bytes;
\* midi.go:  (b1 << 16) + (b2 << 8) + b3, all of it done on bytes
TempoOf(b1, b2, b3) ==
    IF rev = "midi.go"
    THEN ByteAdd(ByteAdd(ByteShl(b1, 16), ByteShl(b2, 8)), b3)
    ELSE ByteShl(b1, 16) + ByteShl(b2, 8) + b3

\* a tempo reader that reads the payload before it looks at the length
ReadTempoEventLateCheck(m, len) ==
    LET r == ReadByteSeq(m, 3, <<>>)
    IN  IF r.err # nil THEN Ret(r.m, r.err, NoEvent, 0)
        ELSE IF len # U64(3) THEN Ret(r.m, errInvalidTempoLength, NoEvent, 0)
        ELSE Ret(r.m, nil, [kind |-> "TempoEvent", event |-> r.m.event,
                            microsecondsPerQuarterNote |->
                                TempoOf(r.val[1], r.val[2], r.val[3])], 0)

ReadTempoEvent(m, len) ==
    IF len # U64(3)
    THEN IF rev = "midi.go" THEN Panic(m, errInvalidTempoLength)
         ELSE Ret(m, errInvalidTempoLength, NoEvent, 0)
    ELSE LET r == ReadByteSeq(m, 3, <<>>)
         IN  IF r.err # nil THEN Ret(r.m, r.err, NoEvent, 0)
             ELSE Ret(r.m, nil, [kind |-> "TempoEvent", event |-> r.m.event,
                                 microsecondsPerQuarterNote |->
                                     TempoOf(r.val[1], r.val[2], r.val[3])], 0)

ReadTrackSequenceNumber(m, len) == Ret(m, errNotImplemented, NoEvent, 0)

ReadMetaEvent(m) ==
    LET r0 == ReadByte(m)
    IN  IF r0.err # nil THEN Ret(r0.m, r0.err, NoEvent, 0) ELSE
    LET metaEvent == r0.val
        r1 == ReadUVarInt(r0.m)
        len == r1.val
        m1 == r1.m
    IN  IF r1.err # nil THEN Ret(m1, r1.err, NoEvent, 0) ELSE
        CASE metaEvent = MetaEventTrackSequenceNumber -> ReadTrackSequenceNumber(m1, len)
          [] metaEvent \in {MetaEventTextEvent, MetaEventCopyright,
                            MetaEventSequenceTrackName, MetaEventTrackInstrumentName,
                            MetaEventLyric, MetaEventMarker, MetaEventCuePoint,
                            MetaEventProgramName, MetaEventDeviceName} ->
                ReadTextEvent(m1, len)
          [] metaEvent \in {MetaEventMidiChannel, MetaEventMidiPort} ->
                IF rev = "midi.go" THEN Panic(m1, errNotImplemented)
                ELSE Ret(m1, errNotImplemented, NoEvent, 0)
          [] metaEvent = MetaEventEndTrack ->
                IF len # U64Zero THEN Ret(m1, errInvalidTrackEndLength, NoEvent, 0)
                ELSE Ret(m1, nil, NoEvent, 0)
          [] metaEvent = MetaEventSetTempo -> ReadTempoEvent(m1, len)
          [] metaEvent = MetaEventSmpteOffset -> ReadSmpteOffsetEvent(m1, len)
          [] metaEvent = MetaEventTimeSignature -> ReadTimeSignatureEvent(m1, len)
          [] metaEvent = MetaEventKeySignature -> ReadKeySignatureEvent(m1, len)
          [] metaEvent = MetaEventSequencerSpecific -> ReadSequencerSpecificEvent(m1, len)
          [] OTHER -> Ret(m1, errInvalidMetaEventType, NoEvent, 0)

-----------------------------------------------------------------------------
(* ReadEvent and ReadNextEvent, src/unnamed/part_000:163-230.              *)

\* a status resolution that does not push a data byte back
ResolveStatusNoUnread(m, b) ==
    IF b < 128
    THEN [m |-> m, commandCode |-> m.event.commandCode, channel |-> m.event.channel]
    ELSE IF (b \div 16) * 16 = 240
         THEN [m |-> m, commandCode |-> b, channel |-> 1]
         ELSE [m |-> m, commandCode |-> (b \div 16) * 16, channel |-> (b % 16) + 1]

\* a status resolution that numbers the channels from 0
ResolveStatusChannel0(m, b) ==
    IF b < 128
    THEN [m |-> UnreadByte(m), commandCode |-> m.event.commandCode,
          channel |-> m.event.channel]
    ELSE IF (b \div 16) * 16 = 240
         THEN [m |-> m, commandCode |-> b, channel |-> 1]
         ELSE [m |-> m, commandCode |-> (b \div 16) * 16, channel |-> b % 16]

\* status resolution, part_000:178-197: the command code and channel of the
\* byte b read in the status position, with the decoder as it is after it
ResolveStatus(m, b) ==
    IF b < 128
    THEN [m |-> UnreadByte(m), commandCode |-> m.event.commandCode,
          channel |-> m.event.channel]
    ELSE IF (b \div 16) * 16 = 240
         THEN [m |-> m, commandCode |-> b, channel |-> 1]
         ELSE [m |-> m, commandCode |-> (b \div 16) * 16, channel |-> (b % 16) + 1]

\* a dispatch that has no decoder for KeyAfterTouch
DispatchNoKeyAfterTouch(m) ==
    LET c == m.event.commandCode
    IN  CASE c = CommandCodeNoteOn -> ReadNoteOnEvent(m)
          [] c = CommandCodeNoteOff -> ReadNoteOffEvent(m)
          [] c = CommandCodeControlChange -> ReadControlChangeEvent(m)
          [] c = CommandCodePatchChange -> ReadPatchChangeEvent(m)
          [] c = CommandCodeChannelAfterTouch -> ReadAfterTouchEvent(m)
          [] c = CommandCodePitchWheelChange -> ReadPitchWheelEvent(m)
          [] c = CommandCodeSysex -> ReadSysexEvent(m)
          [] c \in {CommandCodeTimingClock, CommandCodeStartSequence,
                    CommandCodeContinueSequence, CommandCodeStopSequence} ->
                Ret(m, nil, NoEvent, 0)
          [] c = CommandCodeEox -> Ret(m, errNotImplemented, NoEvent, 0)
          [] c = CommandCodeAutoSensing -> Ret(m, errNotImplemented, NoEvent, 0)
          [] c = CommandCodeMetaEvent -> ReadMetaEvent(m)
          [] OTHER -> Ret(m, errInvalidCommandCode, NoEvent, 0)

Dispatch(m) ==
    LET c == m.event.commandCode
    IN  CASE c = CommandCodeNoteOn -> ReadNoteOnEvent(m)
          [] c \in {CommandCodeNoteOff, CommandCodeKeyAfterTouch} -> ReadNoteOffEvent(m)
          [] c = CommandCodeControlChange -> ReadControlChangeEvent(m)
          [] c = CommandCodePatchChange -> ReadPatchChangeEvent(m)
          [] c = CommandCodeChannelAfterTouch -> ReadAfterTouchEvent(m)
          [] c = CommandCodePitchWheelChange -> ReadPitchWheelEvent(m)
          [] c = CommandCodeSysex -> ReadSysexEvent(m)
          [] c \in {CommandCodeTimingClock, CommandCodeStartSequence,
                    CommandCodeContinueSequence, CommandCodeStopSequence} ->
                Ret(m, nil, NoEvent, 0)
          [] c = CommandCodeEox -> Ret(m, errNotImplemented, NoEvent, 0)
          [] c = CommandCodeAutoSensing -> Ret(m, errNotImplemented, NoEvent, 0)
          [] c = CommandCodeMetaEvent -> ReadMetaEvent(m)
          [] OTHER -> Ret(m, errInvalidCommandCode, NoEvent, 0)

ReadEvent(m) ==
    LET r == ReadByte(m)
    IN  IF r.err # nil THEN Ret(r.m, r.err, NoEvent, 0) ELSE
    LET s == ResolveStatus(r.m, r.val)
    IN  Dispatch([s.m EXCEPT !.event.commandCode = s.commandCode,
                             !.event.channel = s.channel])

\* a reader that counts the delta only once the event has been decoded
ReadNextEventTimeAfter(m) ==
    LET r == ReadUVarInt(m)
        m1 == IF rev = "midi.go" THEN r.m ELSE [r.m EXCEPT !.event.delta = r.val]
    IN  IF r.err # nil THEN Ret(m1, r.err, NoEvent, 0)
        ELSE LET e == ReadEvent(m1)
             IN  IF e.err # nil THEN e
                 ELSE [e EXCEPT !.m.mtrk.time_pos = U64Add(@, r.val)]

\* part_000 keeps the delta in midi.event.delta (0 when the varint fails);
\* midi.go keeps it in a local
ReadNextEvent(m) ==
    LET r == ReadUVarInt(m)
        m1 == IF rev = "midi.go" THEN r.m ELSE [r.m EXCEPT !.event.delta = r.val]
    IN  IF r.err # nil THEN Ret(m1, r.err, NoEvent, 0)
        ELSE ReadEvent([m1 EXCEPT !.mtrk.time_pos = U64Add(@, r.val)])

-----------------------------------------------------------------------------
(* Callers.  A call applies one operation of the decoder to the Midi value *)
(* and keeps what it returned.                                             *)

NoCall == [call |-> "none", err |-> nil, ev |-> NoEvent, val |-> 0, panic |-> FALSE]

Returned(call, r) ==
    [call |-> call, err |-> r.err, ev |-> r.ev, val |-> r.val, panic |-> r.panic]

\* the caller's position: where it is, and how many calls it has counted
At(loc, n) == [loc |-> loc, n |-> n]

\* a fresh decoder of revision r over the bytes of one of the inputs gens,
\* with the caller at loc
Fresh(gens, r, loc) ==
    /\ gen \in gens
    /\ midi = NewMidi(gen.buf)
    /\ ret = NoCall
    /\ pc = At(loc, 0)
    /\ rev = r

RECURSIVE Concat(_)
Concat(ss) == IF ss = <<>> THEN <<>> ELSE Head(ss) \o Concat(Tail(ss))

\* all sequences over S of length at most n
RECURSIVE SeqsUpTo(_, _)
SeqsUpTo(S, n) ==
    IF n = 0 THEN {<<>>}
    ELSE LET shorter == SeqsUpTo(S, n - 1)
         IN  shorter \cup {Append(q, x) : q \in shorter, x \in S}

-----------------------------------------------------------------------------
(* SpecVarint: ReadUVarInt on a fresh decoder, over buffers that are       *)
(*   - the encoding of a value v < 2^35 followed by other bytes, and       *)
(*   - runs of continuation bytes, with or without a terminal byte.        *)

MaxCont == 7

\* the encoder of the round trip: 7-bit groups, low-order group first, 0x80
\* set on every byte but the last
RECURSIVE EncodeUVarInt(_)
EncodeUVarInt(v) ==
    IF U64Small(v) THEN <<U64Low7(v)>>
    ELSE <<U64Low7(v) + 128>> \o EncodeUVarInt(U64Shr7(v))

VarintLow ==
    {0, 1, 64, 127, 300, Limb - 1, Limb - 128, Limb \div 2}
    \cup UNION {{Pow128(k) - 1, Pow128(k), Pow128(k) + 1, 5 * Pow128(k) + 3} : k \in 1..3}

\* the values v < 2^35: bits 28..34 are the second limb
VarintValues == {<<l0, l1, 0>> : l0 \in VarintLow, l1 \in {0, 1, 64, 127}}

VarintTails == {<<>>, <<0>>, <<128>>, <<255, 1>>}

VarintGens(maxCont) ==
    {[from |-> "value", v |-> v, buf |-> Plain(EncodeUVarInt(v) \o t)] :
        v \in VarintValues, t \in VarintTails}
    \cup
    {[from |-> "raw", v |-> U64Zero, buf |-> Plain(c \o term \o t)] :
        c \in SeqsUpTo({128, 255}, maxCont),
        term \in {<<>>, <<0>>, <<1>>, <<2>>, <<64>>, <<127>>},
        t \in {<<>>, <<0>>, <<129>>}}

InitVarint == Fresh(VarintGens(MaxCont), "part_000", "call")

CallReadUVarInt ==
    /\ pc.loc = "call"
    /\ LET r == ReadUVarInt(midi)
       IN  /\ midi' = r.m
           /\ ret' = Returned("ReadUVarInt", r)
    /\ pc' = At("returned", 1)
    /\ UNCHANGED <<rev, gen>>

NextVarint == CallReadUVarInt

SpecVarint == InitVarint /\ [][NextVarint]_vars

\* C6: for every v < 2^35, ReadUVarInt on the low-order-first encoding of v
\* returns v without error and consumes exactly the encoded bytes.
C6_VarintRoundTrip ==
    (pc.loc = "returned" /\ gen.from = "value") =>
        /\ ret.err = nil
        /\ ret.val = gen.v
        /\ midi.buffer.off = Len(EncodeUVarInt(gen.v))

\* a 5-byte value with bit 34 set has been decoded
C6_Witness ==
    /\ pc.loc = "returned" /\ gen.from = "value"
    /\ gen.v[2] >= 64
    /\ ret.val = gen.v
    /\ midi.buffer.off = 5

\* the index (from 0) of the first byte without the continuation bit, or -1
RECURSIVE TerminalIndex(_, _)
TerminalIndex(buf, i) ==
    IF i >= Len(buf) THEN -1
    ELSE IF buf[i + 1] < 128 THEN i
    ELSE TerminalIndex(buf, i + 1)

\* C7: ReadUVarInt succeeds exactly when the first byte without the
\* continuation bit is at index 0..4, or at index 5 with value 0 or 1; with
\* that byte at index 5 and above 1, or behind 6 or more continuation bytes,
\* it fails with Overflow.
C7_VarintBound ==
    pc.loc = "returned" =>
        LET t == TerminalIndex(gen.buf.head, 0)
            b == gen.buf.head[t + 1]
            fits == t \in 0..4 \/ (t = 5 /\ b \in {0, 1})
        IN  /\ ret.err = nil <=> fits
            /\ (t = 5 /\ b > 1) => ret.err = errVarInt32Overflow
            /\ t >= 6 => ret.err = errVarInt32Overflow

\* a sixth byte of 1 was accepted, and it set bit 35
C7_Witness ==
    /\ pc.loc = "returned"
    /\ TerminalIndex(gen.buf.head, 0) = 5
    /\ ret.err = nil
    /\ ret.val[2] >= 128

-----------------------------------------------------------------------------
(* Spec: the driver of src/midibot.go:105-125 over whole files.            *)
(*                                                                         *)
(* A file is the 14-byte header chunk followed by track chunks.  A track   *)
(* chunk is "MTrk", the declared length and the events; an event is one of *)
(* the fragments below, a delta followed by the event's bytes.  The files  *)
(* also include ones that are not well formed: a declared length that is   *)
(* one byte short or long, a header that declares one track more than the  *)
(* file holds, a data byte where a track needs a status byte.              *)

MaxTracks == 2
MaxEvents == 3

Fragment(b, cls, cmd, delta) == [b |-> b, cls |-> cls, cmd |-> cmd, delta |-> delta]

Fragments ==
    { Fragment(<<0, 144, 64, 127>>, "voice", 144, U64(0)),        \* NoteOn, channel 1
      Fragment(<<1, 65, 90>>, "running", 144, U64(1)),            \* two data bytes
      Fragment(<<0, 255, 47, 0>>, "system", 255, U64(0)),         \* EndOfTrack
      Fragment(<<129, 1, 255, 81, 3, 7, 161, 32>>, "system", 255, U64(129)),  \* SetTempo
      Fragment(<<2, 194, 5>>, "voice", 192, U64(2)) }             \* PatchChange, channel 3

\* the four bytes of a big-endian int32
Int32Bytes(n) ==
    IF n >= 0
    THEN <<n \div 16777216, (n \div 65536) % 256, (n \div 256) % 256, n % 256>>
    ELSE LET k == -n - 1
         IN  <<255 - (k \div 16777216), 255 - ((k \div 65536) % 256),
               255 - ((k \div 256) % 256), 255 - (k % 256)>>

Int16Bytes(n) == <<(n \div 256) % 256, n % 256>>

Body(track) == Concat([i \in 1..Len(track) |-> track[i].b])

HeaderChunk(format, tracks, division) ==
    MThd \o Int32Bytes(6) \o Int16Bytes(format) \o Int16Bytes(tracks) \o Int16Bytes(division)

TrackChunk(track, slack) == MTrk \o Int32Bytes(Len(Body(track)) + slack) \o Body(track)

\* A file g holds the tracks g.tracks and then g.more.times copies of the
\* track g.more.track; its header declares g.n tracks, and the declared
\* length of its first track is off by g.slack.

\* the declared length of track j of g.tracks
Declared(g, j) == Len(Body(g.tracks[j])) + (IF j = 1 THEN g.slack ELSE 0)

RenderFile(g) ==
    Bytes(HeaderChunk(1, g.n, 96)
            \o Concat([j \in 1..Len(g.tracks) |->
                          TrackChunk(g.tracks[j], Declared(g, j) - Len(Body(g.tracks[j])))]),
          TrackChunk(g.more.track, 0),
          g.more.times)

\* the lists of t tracks holding at most e events in all
RECURSIVE TrackLists(_, _)
TrackLists(t, e) ==
    IF t = 0 THEN {<<>>}
    ELSE UNION {{<<tr>> \o rest : rest \in TrackLists(t - 1, e - Len(tr))} :
                    tr \in SeqsUpTo(Fragments, e)}

\* the files of at most maxTracks tracks and maxEvents events: well framed,
\* or with the declared length of the first track one short or one long, or
\* with a header that counts one track more
EndOfTrackOnly == <<Fragment(<<0, 255, 47, 0>>, "system", 255, U64(0))>>

NoMore == [track |-> EndOfTrackOnly, times |-> 0]

FileShapes(maxTracks, maxEvents) ==
    {[tracks |-> ts, slack |-> v[1], n |-> Len(ts) + v[2], more |-> NoMore] :
        ts \in UNION {TrackLists(t, maxEvents) : t \in 0..maxTracks},
        v \in {<<0, 0>>, <<-1, 0>>, <<1, 0>>, <<0, 1>>}}

\* a file of 2^15 tracks, each an EndOfTrack: the track count is the first
\* to have the top bit of its 16 bits set
ManyTracks == 2^15

ManyTracksFile ==
    [tracks |-> <<>>, slack |-> 0, n |-> ManyTracks,
     more |-> [track |-> EndOfTrackOnly, times |-> ManyTracks]]

\* a file of 2^15 - 1 tracks, each an EndOfTrack: the largest track count
\* 16 signed bits hold
MostTracks == 2^15 - 1

MostTracksFile ==
    [tracks |-> <<>>, slack |-> 0, n |-> MostTracks,
     more |-> [track |-> EndOfTrackOnly, times |-> MostTracks]]

FileGens(maxTracks, maxEvents) ==
    {[tracks |-> g.tracks, slack |-> g.slack, n |-> g.n, more |-> g.more,
      buf |-> RenderFile(g)] :
        g \in {h \in FileShapes(maxTracks, maxEvents) : h.tracks = <<>> => h.slack = 0}
               \cup {ManyTracksFile, MostTracksFile}}

\* a well-formed file: the header counts the tracks, every declared length is
\* that of the track's events, and a data byte in the status position
\* continues a channel event of the same command in the same track
WellFormedTrack(track) ==
    \A i \in 1..Len(track) :
        track[i].cls = "running" =>
            /\ i > 1
            /\ track[i - 1].cls # "system"
            /\ track[i - 1].cmd = track[i].cmd

Canonical(g) ==
    /\ g.n = Len(g.tracks) + g.more.times
    /\ g.slack = 0
    /\ \A j \in 1..Len(g.tracks) : WellFormedTrack(g.tracks[j])
    /\ WellFormedTrack(g.more.track)

Init == Fresh(FileGens(MaxTracks, MaxEvents), "part_000", "start")

\* midibot.go:113: the error of ReadMThd is dropped
MainReadMThd ==
    /\ pc.loc = "start"
    /\ LET r == ReadMThd(midi)
       IN  /\ midi' = r.m
           /\ ret' = Returned("ReadMThd", r)
    /\ pc' = At("tracks", 0)
    /\ UNCHANGED <<rev, gen>>

\* midibot.go:115-118
MainReadNextMTrk ==
    /\ pc.loc = "tracks"
    /\ HasNextMTrk(midi)
    /\ LET r == ReadNextMTrk(midi)
       IN  /\ midi' = r.m
           /\ ret' = Returned("ReadNextMTrk", r)
           /\ pc' = IF r.err # nil \/ r.panic THEN At("panic", 0) ELSE At("events", 0)
    /\ UNCHANGED <<rev, gen>>

\* midibot.go:119-123
MainReadNextEvent ==
    /\ pc.loc = "events"
    /\ HasNextEvent(midi)
    /\ LET r == ReadNextEvent(midi)
       IN  /\ midi' = r.m
           /\ ret' = Returned("ReadNextEvent", r)
           /\ pc' = IF r.err # nil \/ r.panic THEN At("panic", 0)
                    ELSE At("events", pc.n + 1)
    /\ UNCHANGED <<rev, gen>>

\* midibot.go:119: the event loop ends
MainTrackDone ==
    /\ pc.loc = "events"
    /\ ~HasNextEvent(midi)
    /\ pc' = At("tracks", 0)
    /\ UNCHANGED <<midi, ret, rev, gen>>

\* midibot.go:115: the track loop ends
MainExit ==
    /\ pc.loc = "tracks"
    /\ ~HasNextMTrk(midi)
    /\ pc' = At("done", 0)
    /\ UNCHANGED <<midi, ret, rev, gen>>

Next ==
    \/ MainReadMThd
    \/ MainReadNextMTrk
    \/ MainReadNextEvent
    \/ MainTrackDone
    \/ MainExit

Spec == Init /\ [][Next]_vars

-----------------------------------------------------------------------------
(* Claims about whole files.                                               *)

RECURSIVE SumDeclared(_, _)
SumDeclared(g, j) == IF j = 0 THEN 0 ELSE 8 + Declared(g, j) + SumDeclared(g, j - 1)

\* C1: on a well-formed file (canonical header, format 1, N tracks whose
\* events fill the declared lengths) every call of the driver's run succeeds
\* and the run ends with the cursor at end-of-input, 14 + the sum over the
\* tracks of 8 + declared length bytes consumed.
C1_WholeFileConsumed ==
    Canonical(gen) =>
        /\ ret.err = nil /\ ~ret.panic /\ pc.loc # "panic"
        /\ pc.loc = "done" =>
              /\ Available(midi) = 0
              /\ midi.buffer.off = 14 + SumDeclared(gen, Len(gen.tracks))
                                       + gen.more.times * (8 + Len(Body(gen.more.track)))

\* C1, amended: the same, for N <= 32767 (the track count is read as a
\* signed 16-bit integer).
C1_WholeFileConsumedInt16 ==
    (Canonical(gen) /\ gen.n < ManyTracks) => C1_WholeFileConsumed

\* a run over two tracks, with a running-status event and a two-byte delta,
\* has ended
C1_Witness ==
    /\ Canonical(gen) /\ pc.loc = "done"
    /\ Len(gen.tracks) = 2
    /\ \E i \in 1..Len(gen.tracks[1]) : gen.tracks[1][i].cls = "running"
    /\ \E i \in 1..Len(gen.tracks[2]) : gen.tracks[2][i].delta = U64(129)
    /\ midi.buffer.off = BytesLen(gen.buf)

\* C3: after every successful ReadNextEvent made while HasNextEvent was true,
\* the bytes consumed since the frame was established are at most the
\* declared length: the bytes remaining are at least the frame's end position.
C3_NoEventCrossesBoundary ==
    (ret.call = "ReadNextEvent" /\ ret.err = nil) =>
        Available(midi) >= midi.mtrk.end_pos

\* C4: after every successful ReadNextMTrk the stored last command and last
\* channel are empty.
C4_RunningStatusSeededEmpty ==
    (ret.call = "ReadNextMTrk" /\ ret.err = nil) =>
        /\ midi.event.commandCode = 0
        /\ midi.event.channel = 0

\* track j of the file g: one of g.tracks, or the track that follows them
TrackAt(g, j) == IF j <= Len(g.tracks) THEN g.tracks[j] ELSE g.more.track

RECURSIVE SumDeltas(_, _)
SumDeltas(track, k) ==
    IF k = 0 THEN U64Zero ELSE U64Add(SumDeltas(track, k - 1), track[k].delta)

\* C5: on a well-formed file the cumulative time is 0 right after every
\* successful ReadNextMTrk and, after the k-th successful ReadNextEvent of a
\* track, the sum of the deltas of that track's first k events.
C5_CumulativeTimePerTrack ==
    (Canonical(gen) /\ pc.loc = "events") =>
        midi.mtrk.time_pos = SumDeltas(TrackAt(gen, midi.mtrk.track), pc.n)

-----------------------------------------------------------------------------
(* SpecEvent: a caller of ReadEvent, or of ReadNextEvent, on a fresh       *)
(* decoder over a buffer of events; it stops at the first failure.  With   *)
(* ReadEvent the buffer holds the events alone, with ReadNextEvent each    *)
(* event follows a delta.  SpecEventMidiGo is the same caller on the       *)
(* revision of src/midi/midi.go.                                           *)

MaxCalls == 2

\* an event: its bytes, how many of them lead up to the end of a meta-event's
\* length varint (0 when it is no meta-event), and the length it declares
EventBody(b, hdr, declared) == [b |-> b, hdr |-> hdr, declared |-> declared]

EventBodies ==
    { EventBody(<<144, 64, 127>>, 0, -1),                  \* NoteOn, channel 1
      EventBody(<<65, 90>>, 0, -1),                        \* two data bytes
      EventBody(<<147, 60, 0>>, 0, -1),                    \* NoteOn, channel 4
      EventBody(<<194, 5>>, 0, -1),                        \* PatchChange, channel 3
      EventBody(<<255, 47, 0>>, 3, 0),                     \* EndOfTrack
      EventBody(<<255, 47, 1, 9>>, 3, 1),
      EventBody(<<255, 81, 3, 7, 161, 32>>, 3, 3),         \* SetTempo, 500000
      EventBody(<<255, 81, 3, 1, 0, 255>>, 3, 3),
      EventBody(<<255, 81, 2, 7, 161>>, 3, 2),
      EventBody(<<255, 81, 4, 7, 161, 32, 0>>, 3, 4),
      EventBody(<<255, 81, 130, 0, 7, 161>>, 4, 2),        \* length 2 on two bytes
      EventBody(<<255, 84, 5, 1, 2, 3, 4, 5>>, 3, 5),      \* SmpteOffset
      EventBody(<<255, 84, 4, 1, 2, 3, 4>>, 3, 4),
      EventBody(<<255, 88, 4, 4, 2, 24, 8>>, 3, 4),        \* TimeSignature
      EventBody(<<255, 88, 3, 4, 2, 24>>, 3, 3),
      EventBody(<<255, 89, 2, 1, 0>>, 3, 2),               \* KeySignature
      EventBody(<<255, 89, 1, 1>>, 3, 1),
      EventBody(<<255, 32, 1, 0>>, 3, 1),                  \* MidiChannel
      EventBody(<<255, 33, 1, 0>>, 3, 1) }                 \* MidiPort

EventDeltas == {<<0>>, <<129, 1>>}

EventGens(maxCalls) ==
    {[style |-> "ReadEvent", delta |-> <<>>, frags |-> fs,
      buf |-> Plain(Concat([i \in 1..Len(fs) |-> fs[i].b]))] :
        fs \in SeqsUpTo(EventBodies, maxCalls)}
    \cup
    {[style |-> "ReadNextEvent", delta |-> d, frags |-> fs,
      buf |-> Plain(Concat([i \in 1..Len(fs) |-> d \o fs[i].b]))] :
        fs \in SeqsUpTo(EventBodies, maxCalls), d \in EventDeltas}

InitEvent == Fresh(EventGens(MaxCalls), "part_000", "call")

InitEventMidiGo == Fresh(EventGens(MaxCalls), "midi.go", "call")

CallReadEvent ==
    /\ pc.loc = "call" /\ pc.n < MaxCalls
    /\ gen.style = "ReadEvent"
    /\ ret.err = nil /\ ~ret.panic
    /\ LET r == ReadEvent(midi)
       IN  /\ midi' = r.m
           /\ ret' = Returned("ReadEvent", r)
    /\ pc' = At("call", pc.n + 1)
    /\ UNCHANGED <<rev, gen>>

CallReadNextEvent ==
    /\ pc.loc = "call" /\ pc.n < MaxCalls
    /\ gen.style = "ReadNextEvent"
    /\ ret.err = nil /\ ~ret.panic
    /\ LET r == ReadNextEvent(midi)
       IN  /\ midi' = r.m
           /\ ret' = Returned("ReadNextEvent", r)
    /\ pc' = At("call", pc.n + 1)
    /\ UNCHANGED <<rev, gen>>

NextEvent == CallReadEvent \/ CallReadNextEvent

SpecEvent == InitEvent /\ [][NextEvent]_vars

SpecEventMidiGo == InitEventMidiGo /\ [][NextEvent]_vars

-----------------------------------------------------------------------------
(* Claims about single events.                                             *)

\* the byte i places ahead of the cursor
Ahead(i) == ByteAt(midi.buffer.buf, midi.buffer.off + i)

C2_Step ==
    (ret'.call = "ReadEvent" /\ pc'.n = pc.n + 1
        /\ Available(midi) > 0 /\ Ahead(1) < 128) =>
        /\ midi'.event.commandCode = midi.event.commandCode
        /\ midi'.event.channel = midi.event.channel
        /\ (midi.event.commandCode = CommandCodeNoteOn /\ Available(midi) >= 2) =>
              /\ ret'.err = nil
              /\ ret'.ev.kind = "NoteOnEvent"
              /\ ret'.ev.key = Ahead(1)
              /\ ret'.ev.velocity = Ahead(2)
              /\ ret'.ev.event.channel = midi.event.channel
              /\ midi'.buffer.off = midi.buffer.off + 2

IsNoteOn(ev, channel, key, velocity) ==
    /\ ev.kind = "NoteOnEvent"
    /\ ev.event.commandCode = CommandCodeNoteOn
    /\ ev.event.channel = channel
    /\ ev.key = key
    /\ ev.velocity = velocity

C2_Example ==
    (gen.style = "ReadEvent" /\ gen.buf.head = <<144, 64, 127, 65, 90>>) =>
        /\ pc.n = 1 => (ret.err = nil /\ IsNoteOn(ret.ev, 1, 64, 127)
                        /\ midi.buffer.off = 3)
        /\ pc.n = 2 => (ret.err = nil /\ IsNoteOn(ret.ev, 1, 65, 90)
                        /\ midi.buffer.off = 5)

\* C2: when the byte in the status position has its high bit clear, ReadEvent
\* keeps the stored command code and channel, uses them for the event, and
\* reads that byte again as the first payload byte; the bytes 0x90 0x40 0x7F
\* 0x41 0x5A decode to two NoteOn events on channel 1, keys 0x40 and 0x41,
\* velocities 0x7F and 0x5A, with exactly 5 bytes consumed.
C2_RunningStatus == [][C2_Step /\ C2_Example']_vars

\* the second NoteOn of the example was decoded through running status
C2_Witness ==
    /\ gen.style = "ReadEvent" /\ gen.buf.head = <<144, 64, 127, 65, 90>>
    /\ pc.n = 2
    /\ IsNoteOn(ret.ev, 1, 65, 90)
    /\ midi.buffer.off = 5

\* the lengths the fixed-shape meta-events require, and the errors that
\* report another length
FixedLength(type) ==
    CASE type = MetaEventEndTrack -> 0
      [] type = MetaEventSetTempo -> 3
      [] type = MetaEventSmpteOffset -> 5
      [] type = MetaEventTimeSignature -> 4
      [] type = MetaEventKeySignature -> 2
      [] OTHER -> -1

InvalidLength(type) ==
    CASE type = MetaEventEndTrack -> errInvalidTrackEndLength
      [] type = MetaEventSetTempo -> errInvalidTempoLength
      [] type = MetaEventSmpteOffset -> errInvalidSmpteOffset
      [] type = MetaEventTimeSignature -> errInvalidTimeSignatureLength
      [] type = MetaEventKeySignature -> errInvalidKeySignatureLen

\* the bytes of the first k events of the buffer, deltas included
RECURSIVE LenOfFirst(_, _)
LenOfFirst(g, k) ==
    IF k = 0 THEN 0 ELSE Len(g.delta) + Len(g.frags[k].b) + LenOfFirst(g, k - 1)

\* the cursor is where event pc.n + 1 of the buffer starts
Aligned == pc.n < Len(gen.frags) /\ midi.buffer.off = LenOfFirst(gen, pc.n)

WrongLength(f) ==
    /\ f.hdr > 0
    /\ FixedLength(f.b[2]) >= 0
    /\ f.declared # FixedLength(f.b[2])

C8_Step ==
    (ret'.call = "ReadNextEvent" /\ pc'.n = pc.n + 1 /\ Aligned) =>
        LET f == gen.frags[pc.n + 1]
        IN  WrongLength(f) =>
                /\ ret'.err = InvalidLength(f.b[2])
                /\ ~ret'.panic
                /\ midi'.buffer.off = midi.buffer.off + Len(gen.delta) + f.hdr

\* C8: a ReadNextEvent on an EndOfTrack, SetTempo, SmpteOffset, TimeSignature
\* or KeySignature meta-event whose declared length is not 0, 3, 5, 4 or 2
\* fails with the event's invalid-length error and leaves the cursor right
\* after the length varint.
C8_FixedShapeLength == [][C8_Step]_vars

\* a SetTempo that declares length 2 was refused, the cursor behind its
\* two-byte delta, status, type and length
C8_Witness ==
    /\ ret.call = "ReadNextEvent" /\ pc.n = 1
    /\ gen.delta = <<129, 1>>
    /\ Len(gen.frags) >= 1
    /\ gen.frags[1].b = <<255, 81, 2, 7, 161>>
    /\ ret.err = errInvalidTempoLength
    /\ midi.buffer.off = 5

\* C9: no decode call aborts the program; every failure comes back as an
\* error value.
C9_NoPanic == ~ret.panic

\* C10: a decoded SetTempo carries b1*65536 + b2*256 + b3, for the three
\* payload bytes b1, b2, b3 just consumed.
C10_TempoValue ==
    (ret.err = nil /\ ret.ev.kind = "TempoEvent") =>
        ret.ev.microsecondsPerQuarterNote =
            TempoOfWidened(ByteAt(midi.buffer.buf, midi.buffer.off - 2),
                           ByteAt(midi.buffer.buf, midi.buffer.off - 1),
                           ByteAt(midi.buffer.buf, midi.buffer.off))

-----------------------------------------------------------------------------
(* SpecDispatch: the caller of SpecEvent over buffers that hold every      *)
(* command code of the dispatch table, the text and sequencer-specific     *)
(* meta-events, meta-event types the decoder does not know, and deltas     *)
(* that do not decode.                                                     *)

DispatchBodies ==
    { EventBody(<<128, 60, 0>>, 0, -1),                    \* NoteOff, channel 1
      EventBody(<<147, 60, 100>>, 0, -1),                  \* NoteOn, channel 4
      EventBody(<<165, 60, 9>>, 0, -1),                    \* KeyAfterTouch, channel 6
      EventBody(<<191, 7, 100>>, 0, -1),                   \* ControlChange, channel 16
      EventBody(<<194, 5>>, 0, -1),                        \* PatchChange, channel 3
      EventBody(<<194, 200>>, 0, -1),
      EventBody(<<208, 9>>, 0, -1),                        \* ChannelAfterTouch, channel 1
      EventBody(<<208, 255>>, 0, -1),
      EventBody(<<239, 0, 2>>, 0, -1),                     \* PitchWheelChange, channel 16
      EventBody(<<224, 127, 127>>, 0, -1),
      EventBody(<<224, 1, 1>>, 0, -1),
      EventBody(<<224, 128, 0>>, 0, -1),
      EventBody(<<224, 5, 200>>, 0, -1),
      EventBody(<<65, 90>>, 0, -1),                        \* two data bytes
      EventBody(<<3>>, 0, -1),                             \* one data byte
      EventBody(<<0>>, 0, -1),
      EventBody(<<127, 247>>, 0, -1),                      \* a data byte, then Eox
      EventBody(<<240, 1, 2, 247>>, 0, -1),                \* Sysex
      EventBody(<<240, 247>>, 0, -1),
      EventBody(<<240, 200, 144, 247>>, 0, -1),            \* Sysex, status bytes inside
      EventBody(<<240, 5, 6>>, 0, -1),                     \* Sysex, no Eox
      EventBody(<<247>>, 0, -1),                           \* Eox
      EventBody(<<248>>, 0, -1),                           \* TimingClock
      EventBody(<<250>>, 0, -1),                           \* StartSequence
      EventBody(<<251>>, 0, -1),                           \* ContinueSequence
      EventBody(<<252>>, 0, -1),                           \* StopSequence
      EventBody(<<254>>, 0, -1),                           \* AutoSensing
      EventBody(<<241>>, 0, -1),                           \* no command of the table
      EventBody(<<244>>, 0, -1),
      EventBody(<<246>>, 0, -1),
      EventBody(<<249>>, 0, -1),
      EventBody(<<253>>, 0, -1),
      EventBody(<<255, 1, 3, 97, 98, 99>>, 3, 3),          \* TextEvent
      EventBody(<<255, 2, 0>>, 3, 0),                      \* Copyright, empty
      EventBody(<<255, 3, 1, 120>>, 3, 1),                 \* SequenceTrackName
      EventBody(<<255, 4, 2, 1, 2>>, 3, 2),                \* TrackInstrumentName
      EventBody(<<255, 5, 0>>, 3, 0),                      \* Lyric, empty
      EventBody(<<255, 6, 1, 0>>, 3, 1),                   \* Marker
      EventBody(<<255, 7, 1, 255>>, 3, 1),                 \* CuePoint
      EventBody(<<255, 8, 2, 144, 64>>, 3, 2),             \* ProgramName
      EventBody(<<255, 9, 129, 0, 77>>, 4, 1),             \* DeviceName, length on two bytes
      EventBody(<<255, 1, 5, 97>>, 3, 5),                  \* TextEvent, cut short
      EventBody(<<255, 127, 2, 1, 2>>, 3, 2),              \* SequencerSpecific
      EventBody(<<255, 127, 0>>, 3, 0),
      EventBody(<<255, 0, 2, 0, 1>>, 3, 2),                \* TrackSequenceNumber
      EventBody(<<255, 0, 0>>, 3, 0),
      EventBody(<<255, 10, 0>>, 3, 0),                     \* no type of the table
      EventBody(<<255, 48, 0>>, 3, 0),
      EventBody(<<255, 96, 1, 0>>, 3, 1),
      EventBody(<<255, 126, 0>>, 3, 0),
      EventBody(<<255, 32, 1, 0>>, 3, 1),                  \* MidiChannel
      EventBody(<<255, 33, 1, 0>>, 3, 1),                  \* MidiPort
      EventBody(<<255, 47, 0>>, 3, 0),                     \* EndOfTrack
      EventBody(<<255, 81, 3, 7, 161, 32>>, 3, 3),         \* SetTempo
      EventBody(<<255, 84, 5, 1, 2, 3, 4, 5>>, 3, 5),      \* SmpteOffset
      EventBody(<<255, 88, 4, 4, 2, 24, 8>>, 3, 4),        \* TimeSignature
      EventBody(<<255, 89, 2, 1, 0>>, 3, 2) }              \* KeySignature

\* six bytes, the sixth above 1: no varint
DeltaOverflow == <<255, 255, 255, 255, 255, 2>>

DispatchDeltas == {<<0>>, <<129, 1>>, DeltaOverflow}

\* what follows the first event of a buffer: data bytes for running status,
\* a status byte of another channel, an event that reads no payload, events
\* that fail, a meta-event
DispatchFollowers ==
    { EventBody(<<65, 90>>, 0, -1),
      EventBody(<<3>>, 0, -1),
      EventBody(<<147, 60, 100>>, 0, -1),
      EventBody(<<248>>, 0, -1),
      EventBody(<<194, 200>>, 0, -1),
      EventBody(<<255, 1, 3, 97, 98, 99>>, 3, 3),
      EventBody(<<255, 10, 0>>, 3, 0) }

\* no event, or any event and then at most maxCalls - 1 followers
DispatchFrags(maxCalls) ==
    {<<>>} \cup {<<b>> \o rest : b \in DispatchBodies,
                                 rest \in SeqsUpTo(DispatchFollowers, maxCalls - 1)}

DispatchGens(maxCalls) ==
    {[style |-> "ReadEvent", delta |-> <<>>, frags |-> fs,
      buf |-> Plain(Concat([i \in 1..Len(fs) |-> fs[i].b]))] :
        fs \in DispatchFrags(maxCalls)}
    \cup
    {[style |-> "ReadNextEvent", delta |-> d, frags |-> fs,
      buf |-> Plain(Concat([i \in 1..Len(fs) |-> d \o fs[i].b]))] :
        fs \in DispatchFrags(maxCalls), d \in DispatchDeltas}

InitDispatch == Fresh(DispatchGens(MaxCalls), "part_000", "call")

SpecDispatch == InitDispatch /\ [][NextEvent]_vars

-----------------------------------------------------------------------------
(* Claims about the dispatch.                                              *)

\* a ReadEvent call on a buffer that is not empty
ReadEventStep ==
    ret'.call = "ReadEvent" /\ pc'.n = pc.n + 1 /\ Available(midi) > 0

\* the command code the byte in the status position stands for
Resolved ==
    LET b == Ahead(1)
    IN  IF b < 128 THEN midi.event.commandCode
        ELSE IF b >= 240 THEN b
        ELSE b - (b % 16)

\* a data byte in the status position is the payload's first byte
StatusLen == IF Ahead(1) < 128 THEN 0 ELSE 1

PayloadAt(i) == Ahead(StatusLen + i)

PayloadLeft == Available(midi) - StatusLen

\* the payload bytes the call consumed
PayloadUsed == midi'.buffer.off - midi.buffer.off - StatusLen

\* C11: a PitchWheelChange with data bytes b1, b2 in 0..127 decodes to
\* b1 + b2*128; with the high bit set on either byte the call fails with
\* errInvalidPitchWheelByte.
C11_PitchValue ==
    [][(ReadEventStep /\ Resolved = CommandCodePitchWheelChange /\ PayloadLeft >= 2) =>
          IF PayloadAt(1) < 128 /\ PayloadAt(2) < 128
          THEN /\ ret'.err = nil
               /\ ret'.ev.kind = "PitchWheelEvent"
               /\ ret'.ev.pitch = PayloadAt(1) + PayloadAt(2) * 128
          ELSE ret'.err = errInvalidPitchWheelByte]_vars

VoiceKinds ==
    {"NoteOnEvent", "NoteOffEvent", "ControlChangeEvent", "PatchChangeEvent",
     "AfterTouchEvent", "PitchWheelEvent"}

\* the most recent byte with the high bit set in the status position of the
\* first k events, 0 when there is none
RECURSIVE LastStatus(_, _)
LastStatus(g, k) ==
    IF k = 0 THEN 0
    ELSE IF g.frags[k].b[1] >= 128 THEN g.frags[k].b[1]
    ELSE LastStatus(g, k - 1)

\* the payload bytes of a channel-voice event with status byte s
PayloadSize(s) == IF s - (s % 16) \in {192, 208} THEN 1 ELSE 2

\* each of the first k events of g holds its own bytes and no others, so
\* that the status position of each is its first byte: data bytes follow a
\* channel-voice status and are as many as its payload, and a meta-event
\* holds the payload it declares
SelfContained(g, k) ==
    \A i \in 1..k :
        LET f == g.frags[i]
        IN  /\ f.b[1] < 128 =>
                  /\ LastStatus(g, i - 1) \in 128..239
                  /\ Len(f.b) = PayloadSize(LastStatus(g, i - 1))
            /\ f.hdr > 0 => Len(f.b) = f.hdr + f.declared

\* C12: a decoded channel-voice event, with a status byte of its own or under
\* running status, carries channel (s & 0x0F) + 1, in 1..16, and command code
\* s & 0xF0, for s the most recent explicit status byte.
C12_ChannelOfStatus ==
    (/\ pc.n >= 1 /\ pc.n <= Len(gen.frags)
     /\ ret.err = nil /\ ret.ev.kind \in VoiceKinds
     /\ SelfContained(gen, pc.n)
     /\ midi.buffer.off = LenOfFirst(gen, pc.n)) =>
        LET s == LastStatus(gen, pc.n)
        IN  /\ s \in 128..239
            /\ ret.ev.event.channel = (s % 16) + 1
            /\ ret.ev.event.channel \in 1..16
            /\ ret.ev.event.commandCode = s - (s % 16)

\* a NoteOn on channel 4 was decoded from two data bytes behind a 0x93 event
C12_Witness ==
    /\ pc.n = 2 /\ Len(gen.frags) = 2
    /\ gen.frags[1].b = <<147, 60, 100>> /\ gen.frags[2].b = <<65, 90>>
    /\ ret.err = nil /\ ret.ev.kind = "NoteOnEvent"
    /\ ret.ev.key = 65
    /\ ret.ev.event.channel = 4

\* the place of the first 0xF7 at or behind place from, 0 when there is none
RECURSIVE FirstEox(_, _)
FirstEox(buf, from) ==
    IF from > BytesLen(buf) THEN 0
    ELSE IF ByteAt(buf, from) = CommandCodeEox THEN from
    ELSE FirstEox(buf, from + 1)

TwoBytes(kind) ==
    PayloadLeft >= 2 =>
        /\ ret'.err = nil
        /\ ret'.ev.kind = kind
        /\ PayloadUsed = 2

OneByte(kind, err) ==
    PayloadLeft >= 1 =>
        /\ PayloadUsed = 1
        /\ IF PayloadAt(1) >= 128 THEN ret'.err = err
           ELSE ret'.err = nil /\ ret'.ev.kind = kind

C13_Step ==
    ReadEventStep =>
        LET c == Resolved
        IN  /\ midi'.event.commandCode = c
            /\ CASE c = 144 ->
                      /\ TwoBytes("NoteOnEvent")
                      /\ PayloadLeft >= 2 =>
                            (ret'.ev.key = PayloadAt(1) /\ ret'.ev.velocity = PayloadAt(2))
                 [] c \in {128, 160} ->
                      /\ TwoBytes("NoteOffEvent")
                      /\ PayloadLeft >= 2 =>
                            (ret'.ev.key = PayloadAt(1) /\ ret'.ev.velocity = PayloadAt(2))
                 [] c = 176 ->
                      /\ TwoBytes("ControlChangeEvent")
                      /\ PayloadLeft >= 2 =>
                            (ret'.ev.key = PayloadAt(1) /\ ret'.ev.pressure = PayloadAt(2))
                 [] c = 192 ->
                      /\ OneByte("PatchChangeEvent", errInvalidPatch)
                      /\ ret'.err = nil => ret'.ev.patch = PayloadAt(1)
                 [] c = 208 ->
                      /\ OneByte("AfterTouchEvent", errInvalidAfterTouchPressure)
                      /\ ret'.err = nil => ret'.ev.pressure = PayloadAt(1)
                 [] c = 224 ->
                      PayloadLeft >= 2 =>
                          /\ PayloadUsed = 2
                          /\ \/ ret'.err = nil /\ ret'.ev.kind = "PitchWheelEvent"
                             \/ ret'.err = errInvalidPitchWheelByte
                 [] c = 240 ->
                      LET first == midi.buffer.off + StatusLen + 1
                          eox   == FirstEox(midi.buffer.buf, first)
                      IN  IF eox = 0 THEN ret'.err = ioEOF
                          ELSE /\ ret'.err = nil
                               /\ ret'.ev.kind = "SysexEvent"
                               /\ ret'.ev.data =
                                     [i \in 1..(eox - first) |-> PayloadAt(i)]
                               /\ midi'.buffer.off = eox
                 [] c \in {248, 250, 251, 252} ->
                      ret'.err = nil /\ ret'.ev = NoEvent /\ PayloadUsed = 0
                 [] c \in {247, 254} ->
                      ret'.err = errNotImplemented /\ PayloadUsed = 0
                 [] c = 255 ->
                      /\ ret'.err # errInvalidCommandCode
                      /\ PayloadLeft >= 1 => PayloadUsed >= 1
                      /\ ret'.err = nil => ret'.ev.kind \notin VoiceKinds \cup {"SysexEvent"}
                 [] OTHER ->
                      ret'.err = errInvalidCommandCode /\ PayloadUsed = 0

\* C13: after status resolution the command code decides the decoder: 0x90
\* reads 2 bytes as NoteOn; 0x80 and 0xA0 read 2 bytes as NoteOff; 0xB0 reads
\* 2 bytes as ControlChange; 0xC0 and 0xD0 read 1 byte and refuse a high bit
\* with errInvalidPatch and errInvalidAfterTouchPressure; 0xE0 reads 2 bytes;
\* 0xF0 reads a Sysex up to its 0xF7; 0xF8, 0xFA, 0xFB and 0xFC read nothing
\* and succeed; 0xF7 and 0xFE fail with errNotImplemented; 0xFF reads a
\* meta-event; every other code, 0 included, fails with
\* errInvalidCommandCode.
C13_DispatchTable == [][C13_Step]_vars

\* a KeyAfterTouch was decoded as a NoteOff
C13_Witness ==
    /\ gen.style = "ReadEvent" /\ pc.n = 1 /\ Len(gen.frags) >= 1
    /\ gen.frags[1].b = <<165, 60, 9>>
    /\ ret.err = nil /\ ret.ev.kind = "NoteOffEvent"
    /\ ret.ev.event.commandCode = CommandCodeKeyAfterTouch
    /\ midi.buffer.off = 3

TextTypes == 1..9

KnownTypes ==
    {0, 32, 33, 47, 81, 84, 88, 89, 127} \cup TextTypes

\* the delta in front of the events decodes (there is none in front of the
\* events ReadEvent is called on)
DeltaDecodes == gen.delta # DeltaOverflow

C14_Step ==
    (/\ ret'.call \in {"ReadEvent", "ReadNextEvent"} /\ pc'.n = pc.n + 1
     /\ Aligned /\ DeltaDecodes
     /\ gen.frags[pc.n + 1].hdr > 0) =>
        LET f     == gen.frags[pc.n + 1]
            type  == f.b[2]
            first == Len(gen.delta) + f.hdr
            used  == midi'.buffer.off - midi.buffer.off
            there == Available(midi) - first
            bytes == [i \in 1..f.declared |-> Ahead(first + i)]
        IN  /\ ret'.err = nil => used = first + f.declared
            /\ (type \in TextTypes /\ there >= f.declared) =>
                  /\ ret'.err = nil
                  /\ ret'.ev.kind = "TextEvent"
                  /\ ret'.ev.text = bytes
            /\ (type = 127 /\ there >= f.declared) =>
                  /\ ret'.err = nil
                  /\ ret'.ev.kind = "SequencerSpecificEvent"
                  /\ ret'.ev.data = bytes
            /\ type = 0 => ret'.err = errNotImplemented
            /\ type \notin KnownTypes => ret'.err = errInvalidMetaEventType

\* C14: a decoded meta-event has consumed, behind the 0xFF, the type byte, the
\* length varint and exactly length payload bytes; the types 0x01..0x09 and
\* 0x7F yield those length bytes as their payload, none when the length is 0;
\* type 0x00 fails with errNotImplemented and a type outside the table with
\* errInvalidMetaEventType.
C14_MetaEventLength == [][C14_Step]_vars

\* a DeviceName whose length 1 is written on two bytes was decoded
C14_Witness ==
    /\ gen.style = "ReadNextEvent" /\ gen.delta = <<129, 1>>
    /\ pc.n = 1 /\ Len(gen.frags) >= 1
    /\ gen.frags[1].b = <<255, 9, 129, 0, 77>>
    /\ ret.err = nil /\ ret.ev.kind = "TextEvent"
    /\ ret.ev.text = <<77>>
    /\ midi.buffer.off = 7

\* a <= b on uint64
U64Leq(a, b) ==
    \/ a[3] < b[3]
    \/ a[3] = b[3] /\ a[2] < b[2]
    \/ a[3] = b[3] /\ a[2] = b[2] /\ a[1] <= b[1]

DeltaValue == IF gen.delta = <<129, 1>> THEN U64(129) ELSE U64Zero

C20_Step ==
    (ret'.call = "ReadNextEvent" /\ pc'.n = pc.n + 1) =>
        /\ U64Leq(midi.mtrk.time_pos, midi'.mtrk.time_pos)
        /\ Aligned =>
              IF DeltaDecodes
              THEN midi'.mtrk.time_pos = U64Add(midi.mtrk.time_pos, DeltaValue)
              ELSE /\ ret'.err = errVarInt32Overflow
                   /\ midi'.mtrk.time_pos = midi.mtrk.time_pos
        /\ Available(midi) = 0 =>
              /\ ret'.err = errVarInt32Overflow
              /\ midi'.mtrk.time_pos = midi.mtrk.time_pos

\* C20: the cumulative time never decreases over a ReadNextEvent; it grows by
\* the delta once the delta varint is decoded, also when the event behind the
\* delta fails to decode, and it stays as it is when the delta varint fails.
C20_TimeBeforeBody == [][C20_Step]_vars

\* the second event failed to decode behind its delta, and both deltas count
C20_Witness ==
    /\ gen.style = "ReadNextEvent" /\ gen.delta = <<129, 1>>
    /\ pc.n = 2 /\ Len(gen.frags) = 2
    /\ gen.frags[2].b = <<194, 200>>
    /\ ret.err = errInvalidPatch
    /\ midi.mtrk.time_pos = U64(258)

-----------------------------------------------------------------------------
(* SpecFrame: the driver of src/midibot.go:105-125 over files whose header *)
(* and track chunks are not the canonical ones: another magic, another     *)
(* declared length, the formats 0..3, track counts and divisions with the  *)
(* top bit set, and files that end inside the header or inside a chunk.    *)

MaxFrames == 2

FrameHeader(magic, length, format, tracks, division) ==
    magic \o Int32Bytes(length) \o Int16Bytes(format) \o Int16Bytes(tracks)
          \o Int16Bytes(division)

Prefixes(b, lens) == {SubSeq(b, 1, n) : n \in lens}

\* whole headers, each followed by track chunks
FrameHeaders ==
    {FrameHeader(MThd, l, f, t, d) :
        l \in {6, 0, 7}, f \in 0..3, t \in {0, 1, 2, 258, -1}, d \in {96, -32767}}
    \cup {FrameHeader(MTrk, 6, 1, 1, 96), FrameHeader(<<77, 84, 104, 120>>, 6, 1, 1, 96)}

\* files that end inside the header
ShortHeaders ==
    Prefixes(FrameHeader(MThd, 6, 1, 1, 96), 0..13)
    \cup Prefixes(FrameHeader(MTrk, 6, 1, 1, 96), {4, 5, 13})

FrameChunks ==
    { MTrk \o Int32Bytes(0),
      MTrk \o Int32Bytes(4) \o <<0, 255, 47, 0>>,
      MTrk \o Int32Bytes(-1),
      MThd \o Int32Bytes(0) }

\* what a file ends with: nothing, the start of a track chunk, or the start
\* of a chunk with another magic
FrameCuts ==
    Prefixes(MTrk \o Int32Bytes(0), 0..7) \cup {<<77, 84, 104, 100, 0>>}

FrameGens(maxFrames) ==
    {[header |-> h, tail |-> Concat(cs) \o cut, buf |-> Plain(h \o Concat(cs) \o cut)] :
        h \in FrameHeaders, cs \in SeqsUpTo(FrameChunks, maxFrames), cut \in FrameCuts}
    \cup
    {[header |-> h, tail |-> <<>>, buf |-> Plain(h)] : h \in ShortHeaders}

InitFrame == Fresh(FrameGens(MaxFrames), "part_000", "start")

SpecFrame == InitFrame /\ [][Next]_vars

-----------------------------------------------------------------------------
(* Claims about the header and the track frames.                           *)

EndOfInput == {ioEOF, ioErrUnexpectedEOF, errEOF}

\* the next four bytes are there and are magic
Next4Is(magic) ==
    Available(midi) >= 4 /\ [i \in 1..4 |-> Ahead(i)] = magic

\* the next four bytes are there and are not magic
Next4IsNot(magic) ==
    Available(midi) >= 4 /\ [i \in 1..4 |-> Ahead(i)] # magic

\* the driver calls ReadNextMTrk
ReadNextMTrkStep == pc.loc = "tracks" /\ pc'.loc \in {"events", "panic"}

\* the length field of the chunk at the cursor
DeclaredAhead == Int32BE(<<Ahead(5), Ahead(6), Ahead(7), Ahead(8)>>)

\* a frame was read: 8 bytes consumed, the end position that of the bytes
\* behind the length field less the declared length
FrameRead ==
    /\ ret'.err = nil
    /\ midi'.buffer.off = midi.buffer.off + 8
    /\ midi'.mtrk.end_pos = (Available(midi) - 8) - DeclaredAhead

\* the driver reads an event exactly while the bytes remaining exceed the
\* frame's end position
EventsWhileInside ==
    pc.loc = "events" =>
        IF pc'.loc = "tracks" THEN Available(midi) <= midi.mtrk.end_pos
        ELSE Available(midi) > midi.mtrk.end_pos

\* C15: ReadMTrk fails with errInvalidHeader when the next 4 bytes are not
\* "MTrk", and with an end-of-input error when fewer than 8 bytes remain;
\* with the magic right it fails with errNotImplemented for the formats 0 and
\* 2, and for format 1 it consumes 8 bytes and records the end position, the
\* bytes remaining behind the length field less the declared length;
\* HasNextEvent is true exactly while the bytes remaining exceed it.
C15_FrameParse ==
    [][/\ ReadNextMTrkStep =>
            /\ Next4IsNot(MTrk) => ret'.err = errInvalidHeader
            /\ (Available(midi) < 8 /\ ~Next4IsNot(MTrk)) => ret'.err \in EndOfInput
            /\ (Available(midi) >= 8 /\ Next4Is(MTrk) /\ midi.mthd.format \in {0, 2}) =>
                  ret'.err = errNotImplemented
            /\ (Available(midi) >= 8 /\ Next4Is(MTrk) /\ midi.mthd.format = 1) => FrameRead
       /\ EventsWhileInside]_vars

\* C15, amended: the end-of-input error is that of fewer than 4 bytes, or of
\* format 1 with the magic right and fewer than 8 bytes; the formats 0 and 2
\* fail with errNotImplemented as soon as the magic is right, the length
\* field unread.
C15_FrameParseFormatFirst ==
    [][/\ ReadNextMTrkStep =>
            /\ Next4IsNot(MTrk) => ret'.err = errInvalidHeader
            /\ Available(midi) < 4 => ret'.err \in EndOfInput
            /\ (Next4Is(MTrk) /\ midi.mthd.format \in {0, 2}) =>
                  /\ ret'.err = errNotImplemented
                  /\ midi'.buffer.off = midi.buffer.off + 4
            /\ (Next4Is(MTrk) /\ midi.mthd.format = 1 /\ Available(midi) < 8) =>
                  ret'.err \in EndOfInput
            /\ (Available(midi) >= 8 /\ Next4Is(MTrk) /\ midi.mthd.format = 1) => FrameRead
       /\ EventsWhileInside]_vars

\* a format 0 file ended inside the length field of its track chunk, and
\* ReadNextMTrk said errNotImplemented
C15_Witness ==
    /\ ret.call = "ReadNextMTrk" /\ ret.err = errNotImplemented
    /\ midi.mthd.format = 0
    /\ Available(midi) \in 1..3
    /\ midi.buffer.off = 18

\* the signed 16-bit big-endian value at place i of the buffer
S16At(i) ==
    LET u == ByteAt(midi.buffer.buf, i) * 256 + ByteAt(midi.buffer.buf, i + 1)
    IN  IF u >= 32768 THEN u - 65536 ELSE u

\* C16: ReadMThd fails with errInvalidHeader when the first 4 bytes are not
\* "MThd" and with an end-of-input error when fewer than 14 bytes are there;
\* otherwise it succeeds, consumes 14 bytes whatever the declared length, and
\* sets format, track count and division to the big-endian 16-bit values at
\* offsets 8, 10 and 12.
C16_HeaderParse ==
    (pc.loc = "tracks" /\ ret.call = "ReadMThd") =>
        LET n   == BytesLen(midi.buffer.buf)
            bad == n >= 4 /\ [i \in 1..4 |-> ByteAt(midi.buffer.buf, i)] # MThd
        IN  /\ bad => ret.err = errInvalidHeader
            /\ (~bad /\ n < 14) => ret.err \in EndOfInput
            /\ (~bad /\ n >= 14) =>
                  /\ ret.err = nil
                  /\ midi.buffer.off = 14
                  /\ midi.mthd.format = S16At(9)
                  /\ midi.mthd.tracks = S16At(11)
                  /\ midi.mthd.division = S16At(13)

\* a header that declares length 7 was read: 14 bytes, 258 tracks, a division
\* with the top bit set
C16_Witness ==
    /\ pc.loc = "tracks" /\ ret.call = "ReadMThd" /\ ret.err = nil
    /\ midi.buffer.off = 14
    /\ midi.mthd.length = 7
    /\ midi.mthd.format = 3
    /\ midi.mthd.tracks = 258
    /\ midi.mthd.division = -32767
    /\ Available(midi) > 0

-----------------------------------------------------------------------------
(* Claims about the driver's run over whole files, under Spec.             *)

NoteOnThenEndOfTrack ==
    <<Fragment(<<0, 144, 64, 127>>, "voice", 144, U64(0)),
      Fragment(<<0, 255, 47, 0>>, "system", 255, U64(0))>>

\* the file "MThd" 6 1 1 96, "MTrk" 8, NoteOn at delta 0, EndOfTrack
IsExampleFile ==
    /\ gen.tracks = <<NoteOnThenEndOfTrack>>
    /\ gen.n = 1 /\ gen.slack = 0 /\ gen.more.times = 0

\* C17: on the file "MThd" 6 1 1 96, "MTrk" len, a NoteOn with delta 0 and an
\* EndOfTrack, the run yields the header format 1, 1 track, division 96, then
\* one NoteOn carrying delta 0, then consumes the EndOfTrack; after that
\* HasNextEvent is false and HasNextMTrk is false.
C17_EndToEnd ==
    IsExampleFile =>
        /\ pc.loc # "panic" /\ ret.err = nil
        /\ pc.loc # "start" =>
              /\ midi.mthd.format = 1
              /\ midi.mthd.tracks = 1
              /\ midi.mthd.division = 96
        /\ (pc.loc = "events" /\ pc.n = 0) => HasNextEvent(midi)
        /\ (pc.loc = "events" /\ pc.n = 1) =>
              /\ IsNoteOn(ret.ev, 1, 64, 127)
              /\ ret.ev.event.delta = U64Zero
              /\ HasNextEvent(midi)
        /\ (pc.loc = "events" /\ pc.n = 2) =>
              /\ ret.ev = NoEvent
              /\ Available(midi) = 0
              /\ ~HasNextEvent(midi)
              /\ ~HasNextMTrk(midi)
        /\ (pc.loc = "events") => pc.n <= 2
        /\ pc.loc = "done" =>
              /\ ret.call = "ReadNextEvent" /\ ret.ev = NoEvent
              /\ ~HasNextEvent(midi)
              /\ ~HasNextMTrk(midi)

\* the run over the example file has ended, its 30 bytes consumed
C17_Witness ==
    /\ IsExampleFile /\ pc.loc = "done"
    /\ midi.mtrk.track = 1
    /\ midi.buffer.off = 30

\* C18: after ReadMThd has read a track count N >= 0, the loop over
\* HasNextMTrk calls ReadNextMTrk N times when every call succeeds; the track
\* index goes up by one with every call, from 1 to N, never above N, and
\* HasNextMTrk is false once the loop has ended.
C18_TrackIteration ==
    [][(pc.loc # "start" /\ midi.mthd.tracks >= 0) =>
          /\ midi'.mtrk.track \in 0..midi.mthd.tracks
          /\ midi'.mthd.tracks = midi.mthd.tracks
          /\ IF pc.loc = "tracks" /\ pc'.loc \in {"events", "panic"}
             THEN midi'.mtrk.track = midi.mtrk.track + 1
             ELSE midi'.mtrk.track = midi.mtrk.track
          /\ pc'.loc = "done" =>
                /\ midi'.mtrk.track = midi.mthd.tracks
                /\ ~HasNextMTrk(midi')]_vars

\* the loop over the tracks of a file of 32767 tracks has ended
C18_Witness ==
    /\ pc.loc = "done"
    /\ midi.mthd.tracks = MostTracks
    /\ midi.mtrk.track = MostTracks
    /\ Available(midi) = 0

-----------------------------------------------------------------------------
(* SpecTwin: two decoders, each made by NewMidi over a buffer of its own   *)
(* that holds the same bytes, and each driven through the same sequence of *)
(* calls, in any interleaving.  Here midi is the pair of the two decoders  *)
(* and ret the pair of what each has returned so far, call by call.  The   *)
(* package has no variable that a call writes (part_000:9-24 are the error *)
(* values, assigned once), so a call reads and writes its own Midi only.   *)

TwinTracks == 1
TwinEvents == 2
TwinCalls == 3

Twins == {1, 2}

TwinOps == {"ReadMThd", "ReadNextMTrk", "ReadNextEvent"}

\* the files of the driver that hold NoteOn, running-status and EndOfTrack
\* events, with the header's count right and the first track's declared
\* length right or one short
TwinFiles(maxTracks, maxEvents) ==
    {f \in FileGens(maxTracks, maxEvents) :
        /\ f.n = Len(f.tracks)
        /\ f.slack \in {0, -1}
        /\ \A j \in 1..Len(f.tracks) : \A i \in 1..Len(f.tracks[j]) :
              f.tracks[j][i].b \in {<<0, 144, 64, 127>>, <<1, 65, 90>>, <<0, 255, 47, 0>>}}

TwinGens(maxTracks, maxEvents, maxCalls) ==
    {[buf |-> f.buf, calls |-> cs] :
        f \in TwinFiles(maxTracks, maxEvents), cs \in SeqsUpTo(TwinOps, maxCalls)}

InitTwin ==
    /\ gen \in TwinGens(TwinTracks, TwinEvents, TwinCalls)
    /\ midi = <<NewMidi(gen.buf), NewMidi(gen.buf)>>
    /\ ret = <<<<>>, <<>>>>
    /\ pc = At("twin", 0)
    /\ rev = "part_000"

\* what a caller sees of a call: what it returned, the header and the cursor
TwinResult(call, r) ==
    [call |-> call, err |-> r.err, ev |-> r.ev, val |-> r.val, panic |-> r.panic,
     mthd |-> r.m.mthd, off |-> r.m.buffer.off]

\* decoder i is to make the call op next
TwinAt(i, op) ==
    /\ Len(ret[i]) < Len(gen.calls)
    /\ gen.calls[Len(ret[i]) + 1] = op

TwinDone(i, op, r) ==
    /\ midi' = [midi EXCEPT ![i] = r.m]
    /\ ret' = [ret EXCEPT ![i] = Append(@, TwinResult(op, r))]
    /\ UNCHANGED <<pc, rev, gen>>

TwinReadMThd ==
    \E i \in Twins :
        /\ TwinAt(i, "ReadMThd")
        /\ TwinDone(i, "ReadMThd", ReadMThd(midi[i]))

TwinReadNextMTrk ==
    \E i \in Twins :
        /\ TwinAt(i, "ReadNextMTrk")
        /\ TwinDone(i, "ReadNextMTrk", ReadNextMTrk(midi[i]))

TwinReadNextEvent ==
    \E i \in Twins :
        /\ TwinAt(i, "ReadNextEvent")
        /\ TwinDone(i, "ReadNextEvent", ReadNextEvent(midi[i]))

NextTwin ==
    \/ TwinReadMThd
    \/ TwinReadNextMTrk
    \/ TwinReadNextEvent

SpecTwin == InitTwin /\ [][NextTwin]_vars

-----------------------------------------------------------------------------
(* Claims about the track frame, checked under SpecFrame.                  *)

\* the driver has just read a track frame and no event of it
FrameJustRead ==
    pc.loc = "events" /\ pc.n = 0 /\ ret.call = "ReadNextMTrk" /\ ret.err = nil

\* C21: after every successful ReadMTrk the recorded end position is between
\* 0 and the bytes remaining right after the length field, whatever length
\* the 32-bit field declares.
C21_FrameInsideInput ==
    FrameJustRead =>
        /\ 0 <= midi.mtrk.end_pos
        /\ midi.mtrk.end_pos <= Available(midi)

-----------------------------------------------------------------------------
(* Claims about the status byte and the end of input, checked under        *)
(* SpecDispatch.                                                           *)

\* C22: for a status byte with the high nibble 0xF the resolved command code
\* is the status byte itself and the resolved channel is none of 1..16, in
\* the stored running status and in the event that is emitted.
C22_SystemStatusHasNoChannel ==
    [][(ReadEventStep /\ Ahead(1) >= 240) =>
          /\ midi'.event.commandCode = Ahead(1)
          /\ midi'.event.channel \notin 1..16
          /\ ret'.ev # NoEvent =>
                /\ ret'.ev.event.commandCode = Ahead(1)
                /\ ret'.ev.event.channel \notin 1..16]_vars

\* a ReadNextEvent call on a cursor with no byte left
ExhaustedStep ==
    ret'.call = "ReadNextEvent" /\ pc'.n = pc.n + 1 /\ Available(midi) = 0

\* a ReadNextEvent call on the last event of the buffer, a text meta-event
\* that declares more payload than the buffer holds
CutShortStep ==
    /\ ret'.call = "ReadNextEvent" /\ pc'.n = pc.n + 1
    /\ Aligned /\ DeltaDecodes
    /\ pc.n + 1 = Len(gen.frags)
    /\ gen.frags[pc.n + 1].b = <<255, 1, 5, 97>>

\* C23: a ReadNextEvent on an exhausted cursor fails with an end-of-input
\* error and not with errVarInt32Overflow, as does one on input that ends
\* inside an event's payload.
C23_EndOfInputEverywhere ==
    [][/\ ExhaustedStep => ret'.err \in EndOfInput
       /\ CutShortStep => ret'.err \in EndOfInput]_vars


\* a call on an event of the buffer that starts with the status byte 0xF0
SysexStep ==
    /\ pc'.n = pc.n + 1
    /\ Aligned /\ DeltaDecodes
    /\ gen.frags[pc.n + 1].b[1] = CommandCodeSysex

\* the place of the first byte behind the 0xF0
SysexFirst == midi.buffer.off + Len(gen.delta) + 2

\* C24: after a 0xF0 status ReadSysexEvent consumes the bytes up to and
\* including the first 0xF7 and the payload is the bytes before it, in
\* order; with no 0xF7 before the end of input the call fails with an
\* end-of-input error and emits no event.
C24_SysexToFirstEox ==
    [][SysexStep =>
          LET eox == FirstEox(midi.buffer.buf, SysexFirst)
          IN  IF eox = 0
              THEN ret'.err \in EndOfInput /\ ret'.ev = NoEvent
              ELSE /\ ret'.err = nil
                   /\ ret'.ev.kind = "SysexEvent"
                   /\ ret'.ev.data = [i \in 1..(eox - SysexFirst) |->
                                         ByteAt(midi.buffer.buf, SysexFirst + i - 1)]
                   /\ midi'.buffer.off = eox]_vars

\* F0 C8 90 F7 behind a delta of two bytes decoded to the payload C8 90, and
\* the cursor is behind the 0xF7
C24_Witness ==
    /\ pc.n = 1 /\ gen.style = "ReadNextEvent" /\ gen.delta = <<129, 1>>
    /\ Len(gen.frags) >= 1 /\ gen.frags[1].b = <<240, 200, 144, 247>>
    /\ ret.err = nil /\ ret.ev.kind = "SysexEvent"
    /\ ret.ev.data = <<200, 144>>
    /\ midi.buffer.off = 6

\* the first ReadNextEvent on a decoder that has read nothing, the delta
\* decodes and the byte behind it has the high bit clear
FreshDataStep ==
    /\ ret'.call = "ReadNextEvent"
    /\ pc.n = 0 /\ pc'.n = 1
    /\ midi.buffer.off = 0
    /\ DeltaDecodes
    /\ Available(midi) > Len(gen.delta)
    /\ Ahead(Len(gen.delta) + 1) < 128

\* C25: on a fresh decoder a ReadNextEvent whose status-position byte has
\* the high bit clear fails with errInvalidCommandCode and emits no event,
\* whatever that byte and the bytes behind it are.
C25_NoRunningStatusAtStart ==
    [][FreshDataStep =>
          /\ ret'.err = errInvalidCommandCode
          /\ ret'.ev = NoEvent]_vars

\* the data bytes 41 5A behind a delta, with a NoteOn behind them, were
\* refused on the first call
C25_Witness ==
    /\ pc.n = 1 /\ gen.style = "ReadNextEvent" /\ gen.delta = <<0>>
    /\ Len(gen.frags) = 2
    /\ gen.frags[1].b = <<65, 90>> /\ gen.frags[2].b = <<147, 60, 100>>
    /\ ret.call = "ReadNextEvent"
    /\ ret.err = errInvalidCommandCode
    /\ ret.ev = NoEvent

-----------------------------------------------------------------------------
(* Claims about the end of a track, checked under Spec.                    *)

IsEndOfTrack(f) == f.b = <<0, 255, 47, 0>>

HoldsEndOfTrack(track) == \E i \in 1..Len(track) : IsEndOfTrack(track[i])

\* the track the driver is in
CurrentTrack == TrackAt(gen, midi.mtrk.track)

\* C27: after a successful EndOfTrack HasNextEvent is still true whenever
\* bytes remain before the frame's end position, and the bytes that follow
\* are decoded as further events of the same track; a track whose bytes run
\* out without an EndOfTrack is reported exhausted without any failure.
C27_ExhaustionByCursorOnly ==
    (Canonical(gen) /\ pc.loc \in {"events", "tracks"} /\ midi.mtrk.track >= 1) =>
        LET tr == CurrentTrack
            k  == pc.n
        IN  /\ (pc.loc = "events" /\ k >= 1 /\ k <= Len(tr) /\ IsEndOfTrack(tr[k])) =>
                  /\ ret.err = nil /\ ret.ev = NoEvent
                  /\ HasNextEvent(midi) <=> k < Len(tr)
            /\ (pc.loc = "events" /\ k >= 2 /\ k <= Len(tr) /\ IsEndOfTrack(tr[k - 1])) =>
                  /\ ret.call = "ReadNextEvent" /\ ret.err = nil
                  /\ midi.event.commandCode = tr[k].cmd
                  /\ midi.event.delta = tr[k].delta
                  /\ tr[k].cmd = CommandCodeNoteOn => IsNoteOn(ret.ev, 1, 64, 127)
                  /\ tr[k].cmd = CommandCodePatchChange => ret.ev.kind = "PatchChangeEvent"
                  /\ tr[k].b[3] = CommandCodeMetaEvent /\ tr[k].b[4] = MetaEventSetTempo =>
                        ret.ev.kind = "TempoEvent"
            /\ (pc.loc = "events" /\ HoldsEndOfTrack(tr)) => k <= Len(tr)
            /\ (~HoldsEndOfTrack(tr) /\ (pc.loc = "tracks" \/ k >= Len(tr))) =>
                  /\ k = (IF pc.loc = "tracks" THEN 0 ELSE Len(tr))
                  /\ ~HasNextEvent(midi)
                  /\ ret.err = nil /\ ~ret.panic

\* in a track that holds an EndOfTrack and then a NoteOn, the NoteOn was
\* decoded as the track's second event
C27_Witness ==
    /\ Canonical(gen) /\ pc.loc = "events" /\ pc.n = 2
    /\ midi.mtrk.track = 1 /\ Len(gen.tracks) >= 1
    /\ Len(gen.tracks[1]) = 2
    /\ IsEndOfTrack(gen.tracks[1][1])
    /\ gen.tracks[1][2].cmd = CommandCodeNoteOn
    /\ IsNoteOn(ret.ev, 1, 64, 127)
    /\ ~HasNextEvent(midi)

-----------------------------------------------------------------------------
(* SpecLive: the driver of Spec, run to its end.  main is one sequential   *)
(* thread that takes its next step whenever it has one, which is weak      *)
(* fairness of Next.  The files hold realtime markers, bytes that are read *)
(* under the running status of a marker, and first tracks that declare     *)
(* fewer or more bytes than they hold, up to more than the file has.       *)

LiveTracks == 2
LiveEvents == 3

LiveFragments ==
    { Fragment(<<0, 248>>, "system", 248, U64(0)),                \* TimingClock
      Fragment(<<5>>, "running", 248, U64(5)),                    \* a delta alone
      Fragment(<<0, 144, 64, 127>>, "voice", 144, U64(0)),        \* NoteOn, channel 1
      Fragment(<<0, 255, 47, 0>>, "system", 255, U64(0)) }        \* EndOfTrack

\* the lists of t tracks holding at most e fragments in all
RECURSIVE LiveTrackLists(_, _)
LiveTrackLists(t, e) ==
    IF t = 0 THEN {<<>>}
    ELSE UNION {{<<tr>> \o rest : rest \in LiveTrackLists(t - 1, e - Len(tr))} :
                    tr \in SeqsUpTo(LiveFragments, e)}

\* the declared length of the first track is right, one short, one long, or
\* 100 long
LiveSlacks == {0, -1, 1, 100}

LiveGens(maxTracks, maxEvents) ==
    {[tracks |-> ts, slack |-> v, n |-> Len(ts), more |-> NoMore,
      buf |-> RenderFile([tracks |-> ts, slack |-> v, n |-> Len(ts), more |-> NoMore])] :
        ts \in UNION {LiveTrackLists(t, maxEvents) : t \in 1..maxTracks},
        v \in LiveSlacks}

InitLive == Fresh(LiveGens(LiveTracks, LiveEvents), "part_000", "start")

\* a step of main, told by the position it leaves and the one it takes:
\* every step of Next is one, and one is possible exactly where Next has a
\* step, at every position but "done" and "panic" (the guards of
\* MainReadNextMTrk and MainExit, and those of MainReadNextEvent and
\* MainTrackDone, are each other's negation)
MainStep ==
    /\ pc.loc \notin {"done", "panic"}
    /\ pc' \in {At("tracks", 0), At("events", 0), At("events", pc.n + 1),
                At("panic", 0), At("done", 0)}
    /\ pc' # pc

SpecLive == InitLive /\ [][Next]_vars /\ WF_pc(MainStep)

\* the driver's ReadNextEvent has succeeded
EventRead == pc.loc = "events" /\ pc'.loc = "events" /\ pc'.n = pc.n + 1

\* the stored status is a realtime marker, and the cursor is at a delta of
\* one byte with a data byte behind it
MarkerRunning ==
    /\ midi.event.commandCode \in {CommandCodeTimingClock, CommandCodeStartSequence,
                                   CommandCodeContinueSequence, CommandCodeStopSequence}
    /\ Available(midi) >= 2
    /\ Ahead(1) < 128 /\ Ahead(2) < 128

\* C26: every successful ReadNextEvent consumes at least one byte, and a
\* realtime marker reached through running status consumes the delta only;
\* the driver's loop over HasNextMTrk, ReadNextMTrk, HasNextEvent and
\* ReadNextEvent ends, with no more tracks or with a failure, also when a
\* declared track length exceeds the bytes that remain.
C26_ProgressAndTermination ==
    /\ [][/\ EventRead => midi'.buffer.off > midi.buffer.off
          /\ (pc.loc = "events" /\ HasNextEvent(midi) /\ MarkerRunning) =>
                /\ EventRead
                /\ ret'.err = nil /\ ret'.ev = NoEvent
                /\ midi'.buffer.off = midi.buffer.off + 1
          /\ MainStep]_vars
    /\ <>(pc.loc \in {"done", "panic"})

\* in a track that declares 100 bytes more than the file holds, the delta 5
\* behind a TimingClock was read as an event of its own
C26_Witness ==
    /\ gen.slack = 100
    /\ Len(gen.tracks) = 1 /\ Len(gen.tracks[1]) = 3
    /\ gen.tracks[1][1].b = <<0, 248>> /\ gen.tracks[1][2].b = <<5>>
    /\ gen.tracks[1][3].b = <<0, 144, 64, 127>>
    /\ pc.loc = "events" /\ pc.n = 2
    /\ ret.call = "ReadNextEvent" /\ ret.err = nil /\ ret.ev = NoEvent
    /\ midi.event.commandCode = CommandCodeTimingClock
    /\ midi.event.delta = U64(5)
    /\ midi.buffer.off = 14 + 8 + 3
    /\ midi.mtrk.end_pos < 0
=============================================================================
